---- MODULE Spec2Model ----
(***************************************************************************)
(* Chronicle Slides: the collaborative text binding (useYText), its undo   *)
(* manager, the shared slide store mutations and the read-only gate of the *)
(* UI, modelled as state machines over two clients.                        *)
(***************************************************************************)
EXTENDS Integers, Sequences, FiniteSets, TLC

(***************************************************************************)
(* Bounds of the model.                                                    *)
(***************************************************************************)
\* Longest string handed to the diff of setValue in the diff harness.
MaxDiffLen == 3

\* The characters a user can type.
Alphabet == {"a", "b"}

(***************************************************************************)
(* Strings are sequences of characters (JavaScript strings indexed by code *)
(* unit).                                                                  *)
(***************************************************************************)
StringsUpTo(n) == UNION {[1..k -> Alphabet] : k \in 0..n}

Min(x, y) == IF x <= y THEN x ELSE y

\* next.slice(from, to) with 0-based from (inclusive) and to (exclusive).
slice(s, from, to) == SubSeq(s, from + 1, to)

VARIABLES
  \* ---- diff harness: the strings handed to setValue and what it computed
  diffPrev,     \* prev = yText.toString()
  diffNext,     \* next, the argument of setValue
  diffOut,      \* the edit region setValue computed (kind: none | noop | edit)
  \* ---- collaborative text: one Y.Doc replica and one useYText per client
  client,       \* per client: the replica, the hook's state and its effects
  net,          \* net[from][to]: updates sent by from, not yet applied by to
  budget,       \* how many text changes and key presses are still explored
  last,         \* what the most recent step did (read by the properties)
  \* ---- shared slide store: the server's slide list and each client's copy
  store,
  \* ---- the slide list UI of one client: its link, presence and handlers
  ui,
  \* ---- useShareMode of one session: its link, the slide list, the result
  share,
  \* ---- the YjsProvider of one session: its contexts and its consumers
  yjs

diffVars == <<diffPrev, diffNext, diffOut>>
textVars == <<client, net, budget, last>>

vars == <<diffVars, textVars, store, ui, share, yjs>>

(***************************************************************************)
(* The diff of setValue (useYText.setValue, the body of the transaction).  *)
(***************************************************************************)
\* Common prefix loop: while (prefixLen < prev.length && prefixLen <
\* next.length && prev[prefixLen] === next[prefixLen]) prefixLen++
RECURSIVE prefixLoop(_, _, _)
prefixLoop(prev, next, prefixLen) ==
  IF /\ prefixLen < Len(prev)
     /\ prefixLen < Len(next)
     /\ prev[prefixLen + 1] = next[prefixLen + 1]
  THEN prefixLoop(prev, next, prefixLen + 1)
  ELSE prefixLen

\* The suffix loop's bound as a bug would write it: the prefix is not
\* subtracted, so prefix and suffix may overlap.
suffixBoundOverlapping(len, prefixLen) == len

\* The suffix loop's bound on one string: suffixLen < len - prefixLen.
suffixBound(len, prefixLen) == len - prefixLen

\* Common suffix loop.
RECURSIVE suffixLoop(_, _, _, _)
suffixLoop(prev, next, prefixLen, suffixLen) ==
  IF /\ suffixLen < suffixBound(Len(prev), prefixLen)
     /\ suffixLen < suffixBound(Len(next), prefixLen)
     /\ prev[Len(prev) - suffixLen] = next[Len(next) - suffixLen]
  THEN suffixLoop(prev, next, prefixLen, suffixLen + 1)
  ELSE suffixLen

\* The insert string as a bug would slice it: the suffix is not cut off.
insertTextWholeTail(next, prefixLen, suffixLen) ==
  slice(next, prefixLen, Len(next))

\* const insertText = next.slice(prefixLen, next.length - suffixLen)
insertText(next, prefixLen, suffixLen) ==
  slice(next, prefixLen, Len(next) - suffixLen)

\* diffOut before setValue is called, and after its early return.
NoCall == [kind |-> "none"]
EarlyReturn == [kind |-> "noop"]

\* The edit region without the suffix scan: everything after the common
\* prefix is deleted and inserted again.
editRegionWithoutSuffix(prev, next) ==
  LET p == prefixLoop(prev, next, 0)
  IN [kind |-> "edit",
      prefixLen |-> p,
      suffixLen |-> 0,
      deleteLen |-> Len(prev) - p,
      insertText |-> insertText(next, p, 0)]

\* The edit region setValue applies for prev -> next.
editRegion(prev, next) ==
  LET p == prefixLoop(prev, next, 0)
      s == suffixLoop(prev, next, p, 0)
  IN [kind |-> "edit",
      prefixLen |-> p,
      suffixLen |-> s,
      deleteLen |-> Len(prev) - p - s,
      insertText |-> insertText(next, p, s)]

\* What yText.delete(prefixLen, deleteLen) followed by
\* yText.insert(prefixLen, insertText) makes of the string prev; each call
\* is skipped when its length is zero.
applyRegion(prev, r) ==
  LET afterDelete ==
        IF r.deleteLen > 0
        THEN SubSeq(prev, 1, r.prefixLen)
               \o SubSeq(prev, r.prefixLen + r.deleteLen + 1, Len(prev))
        ELSE prev
  IN IF Len(r.insertText) > 0
     THEN SubSeq(afterDelete, 1, r.prefixLen) \o r.insertText
            \o SubSeq(afterDelete, r.prefixLen + 1, Len(afterDelete))
     ELSE afterDelete

(***************************************************************************)
(* The replicated text (Y.Text of yjs) as the hook uses it: a list of      *)
(* single-character items with tombstones.  An item is                     *)
(*   [id, ch, org, rorg, del, redone]                                      *)
(* with id = <<client, clock>>, org / rorg the ids of its left and right   *)
(* neighbours when it was inserted, del its tombstone flag and redone the  *)
(* id of the copy an undo or redo made of it.                              *)
(***************************************************************************)
Clients == {1, 2}

\* A sequence object is named by the client whose transaction created it.
Handles == Clients
NoHandle == 0

NoId == <<0, 0>>

Max(S) == CHOOSE x \in S : \A y \in S : y <= x

RECURSIVE toString(_)
toString(list) ==
  IF list = << >> THEN << >>
  ELSE (IF Head(list).del THEN << >> ELSE <<Head(list).ch>>) \o toString(Tail(list))

Ids(list) == {list[i].id : i \in 1..Len(list)}

VisibleIds(list) == {list[i].id : i \in {j \in 1..Len(list) : ~list[j].del}}

IndexOfId(list, id) ==
  IF id = NoId THEN 0 ELSE CHOOSE i \in 1..Len(list) : list[i].id = id

InsertAfter(list, i, it) ==
  SubSeq(list, 1, i) \o <<it>> \o SubSeq(list, i + 1, Len(list))

MarkDeleted(list, ids) ==
  [i \in 1..Len(list) |->
     IF list[i].id \in ids THEN [list[i] EXCEPT !.del = TRUE] ELSE list[i]]

\* The list index of the n-th visible item, scanning from index i.
RECURSIVE NthVisible(_, _, _)
NthVisible(list, n, i) ==
  IF ~list[i].del
  THEN (IF n = 1 THEN i ELSE NthVisible(list, n - 1, i + 1))
  ELSE NthVisible(list, n, i + 1)

\* Items are skipped to the right while they are deleted.
RECURSIVE SkipDeleted(_, _)
SkipDeleted(list, i) ==
  IF i + 1 <= Len(list) /\ list[i + 1].del THEN SkipDeleted(list, i + 1) ELSE i

\* yText.delete(index, length): the ids of the visible characters
\* index .. index + length - 1.
ytextDeleteIds(list, index, length) ==
  {list[NthVisible(list, k, 1)].id : k \in (index + 1)..(index + length)}

\* yText.insert(index, text): the list index after which the text goes,
\* the index-th visible item and the tombstones that follow it.
ytextInsertPos(list, index) ==
  SkipDeleted(list, IF index = 0 THEN 0 ELSE NthVisible(list, index, 1))

\* The items of a text inserted after list index i by client c, whose next
\* clock is k: each character's origin is the character before it.
NewItems(list, i, text, c, k) ==
  [j \in 1..Len(text) |->
     [id |-> <<c, k + j - 1>>,
      ch |-> text[j],
      org |-> IF j = 1 THEN (IF i = 0 THEN NoId ELSE list[i].id)
              ELSE <<c, k + j - 2>>,
      rorg |-> IF i = Len(list) THEN NoId ELSE list[i + 1].id,
      del |-> FALSE,
      redone |-> NoId]]

\* Integration of an item whose neighbours are adjacent (a local insert).
InsertRun(list, i, items) ==
  SubSeq(list, 1, i) \o items \o SubSeq(list, i + 1, Len(list))

\* Item.integrate: where an item received from a peer goes between its
\* origin and its right origin when other items were inserted there
\* concurrently (the conflict resolution of yjs).
RECURSIVE integrateScan(_, _, _, _, _, _, _)
integrateScan(list, it, ri, o, left, conflicting, beforeOrigin) ==
  IF o >= ri \/ o > Len(list) THEN left
  ELSE LET oi == list[o]
           before2 == beforeOrigin \cup {oi.id}
           conf2 == conflicting \cup {oi.id}
       IN IF oi.org = it.org
          THEN IF oi.id[1] < it.id[1]
               THEN integrateScan(list, it, ri, o + 1, o, {}, before2)
               ELSE IF oi.rorg = it.rorg THEN left
               ELSE integrateScan(list, it, ri, o + 1, left, conf2, before2)
          ELSE IF oi.org # NoId /\ oi.org \in before2
               THEN IF oi.org \notin conf2
                    THEN integrateScan(list, it, ri, o + 1, o, {}, before2)
                    ELSE integrateScan(list, it, ri, o + 1, left, conf2, before2)
               ELSE left

integrate(list, it) ==
  LET li == IndexOfId(list, it.org)
      ri == IF it.rorg = NoId THEN Len(list) + 1 ELSE IndexOfId(list, it.rorg)
  IN InsertAfter(list, integrateScan(list, it, ri, li + 1, li, {}, {}), it)

RECURSIVE integrateAll(_, _)
integrateAll(list, items) ==
  IF items = << >> THEN list
  ELSE integrateAll(integrate(list, Head(items)), Tail(items))

(***************************************************************************)
(* One client: its replica of the Y.Doc (the map entry of the text-box id  *)
(* and the sequences), the React state of useYText, what the last render   *)
(* handed out, and what the effects have registered.                       *)
(***************************************************************************)
NoManager ==
  [state |-> "absent", undoStack |-> << >>, redoStack |-> << >>, capturing |-> FALSE]

\* new Y.UndoManager(yText, { trackedOrigins: new Set([origin]) })
NewManager ==
  [state |-> "live", undoStack |-> << >>, redoStack |-> << >>, capturing |-> FALSE]

InitClient ==
  [known |-> {},                        \* sequence objects set under the key
   seq |-> [h \in Handles |-> << >>],   \* the items of each sequence object
   clk |-> 1,                           \* next clock of this client's ids
   mounted |-> FALSE,
   isEditing |-> FALSE,                 \* the textarea is shown
   yText |-> NoHandle,                  \* useState<Y.Text>
   value |-> << >>,                     \* useState<string>
   renderYText |-> NoHandle,            \* yText of the last render (closures)
   renderValue |-> << >>,               \* value of the last render
   renderUndoManager |-> NoHandle,      \* undoManager of the last render
   effectYText |-> NoHandle,            \* yText the effects last ran for
   observed |-> NoHandle,               \* sequence the observer is on
   mapObserved |-> NoHandle,            \* yText in onMapChange's closure
   undoManagerRef |-> NoHandle,         \* undoManagerRef.current
   um |-> [h \in Handles |-> NoManager],
   text |-> << >>,                      \* textBox.text of the slide list
   seededRef |-> FALSE,                 \* seededRef.current of useTextBoxSync
   \* ---- history, read by the properties only
   scene |-> "none",                    \* local edits (one, many), then a
                                        \* peer's edit (oneRemote, manyRemote)
   lastEdit |-> [ins |-> {}, dels |-> {}],  \* the last local edit
   rebound |-> FALSE,                   \* onMapChange has changed yText
   preRebind |-> {},                    \* the items known when it did
   valueIds |-> {},                     \* the characters value was read from
   renderIds |-> {}]                    \* the characters the last render shows

\* map.get(key): with concurrent map.set calls the entry of the client
\* with the highest id is the current one.
mapGet(s) == IF s.known = {} THEN NoHandle ELSE Max(s.known)

\* A sequence object whose map entry was overwritten is deleted, and so is
\* everything in it and everything inserted into it later.
isDeleted(s, h) == h \in s.known /\ h # mapGet(s)

Create(h) == [type |-> "create", h |-> h, ins |-> << >>, dels |-> {}]
Update(h, ins, dels) == [type |-> "update", h |-> h, ins |-> ins, dels |-> dels]

\* The first render of useYText(key): the initial state of yText (created
\* and stored in the map when the key has no entry) and of value.  No
\* effect has run and undoManagerRef.current is still null.
useYTextInitialState(s, c) ==
  LET created == mapGet(s) = NoHandle
      known == IF created THEN {c} ELSE s.known
      text == Max(known)
  IN [s |-> [s EXCEPT !.known = known,
                      !.mounted = TRUE,
                      !.yText = text,
                      !.value = toString(s.seq[text]),
                      !.valueIds = VisibleIds(s.seq[text]),
                      !.renderIds = VisibleIds(s.seq[text]),
                      !.renderYText = text,
                      !.renderValue = toString(s.seq[text]),
                      !.renderUndoManager = s.undoManagerRef],
      msgs |-> IF created THEN <<Create(c)>> ELSE << >>]

\* A re-render: the hook returns the current state, and undoManager is
\* undoManagerRef.current as it is during this render.
renderPending(s) ==
  s.mounted /\ (s.yText # s.renderYText \/ s.value # s.renderValue)

render(s) ==
  [s EXCEPT !.renderYText = s.yText,
            !.renderValue = s.value,
            !.renderIds = s.valueIds,
            !.renderUndoManager = s.undoManagerRef]

\* The effects with yText among their dependencies run after a render in
\* which yText differs from the one they last ran for.
effectsPending(s) == s.mounted /\ s.effectYText # s.renderYText

\* The undo manager effect as a bug would write it: the manager of the
\* first sequence is kept when yText changes.
undoManagerEffectKeepsOld(s) ==
  IF s.undoManagerRef # NoHandle THEN s
  ELSE [s EXCEPT !.um[s.renderYText] = NewManager,
                 !.undoManagerRef = s.renderYText]

\* The undo manager effect: the cleanup of the previous run destroys the
\* manager and clears the ref, then a manager for the current yText is made.
undoManagerEffect(s) ==
  LET cleaned == IF s.undoManagerRef # NoHandle
                 THEN [s.um EXCEPT ![s.undoManagerRef].state = "destroyed"]
                 ELSE s.um
  IN [s EXCEPT !.um = [cleaned EXCEPT ![s.renderYText] = NewManager],
               !.undoManagerRef = s.renderYText]

\* The observer effect: yText.unobserve(observer) of the previous run, then
\* yText.observe(observer) on the current yText.
observerEffect(s) == [s EXCEPT !.observed = s.renderYText]

\* The map effect: map.observe(onMapChange), whose closure holds yText.
mapEffect(s) == [s EXCEPT !.mapObserved = s.renderYText]

runEffects(s) ==
  [undoManagerEffect(mapEffect(observerEffect(s))) EXCEPT
     !.effectYText = s.renderYText]

\* What React does before a discrete event (a double click, a key press, a
\* change event) ends: the effects still pending run, the component is
\* rendered again when its state or props changed (rerender), and the
\* effects of that render run.
flushSync(s, rerender) ==
  LET e == IF effectsPending(s) THEN runEffects(s) ELSE s
      r == IF rerender \/ renderPending(e) THEN render(e) ELSE e
  IN IF effectsPending(r) THEN runEffects(r) ELSE r

\* The text box after the double click that starts editing.
Editing(s) == [flushSync(s, TRUE) EXCEPT !.isEditing = TRUE]

\* observer: setValueState(yText.toString()), called after a transaction
\* that changed the observed sequence; a deleted sequence reports no change.
observer(s, h) ==
  IF s.observed = h /\ ~isDeleted(s, h)
  THEN [s EXCEPT !.value = toString(s.seq[h]),
                 !.valueIds = VisibleIds(s.seq[h])]
  ELSE s

\* onMapChange, called after a transaction that changed the key: rebind
\* when the entry is another object than the yText of the closure.
onMapChange(s) ==
  LET latest == mapGet(s)
  IN IF s.mapObserved # NoHandle /\ latest # NoHandle /\ latest # s.mapObserved
     THEN [s EXCEPT !.yText = latest,
                    !.value = toString(s.seq[latest]),
                    !.valueIds = VisibleIds(s.seq[latest]),
                    !.scene = "none",
                    !.rebound = TRUE,
                    !.preRebind = UNION {Ids(s.seq[h]) : h \in Handles}]
     ELSE s

\* A sequence object and all its items become deleted.
deleteSequence(seq, h) ==
  [seq EXCEPT ![h] = MarkDeleted(seq[h], Ids(seq[h]))]

(***************************************************************************)
(* The undo manager's capture of a transaction (afterTransactionHandler of *)
(* Y.UndoManager) and setValue.                                            *)
(***************************************************************************)
StackItem(insertions, deletions) == [ins |-> insertions, dels |-> deletions]

\* The origin of the transactions of setValue (Symbol('user-origin')) and
\* of the transactions in which the provider applies a peer's update.
UserOrigin == "user-origin"
ProviderOrigin == "provider"

\* A manager as a bug would make it: with no trackedOrigins it captures the
\* transactions of every origin.
trackedOriginsAny(origin) == TRUE

\* trackedOrigins: new Set([origin])
trackedOrigins(origin) == origin = UserOrigin

\* A tracked transaction that is neither an undo nor a redo: the redo stack
\* is cleared, and the change joins the last stack item when it comes
\* within the capture timeout of the change before it (within), else it is
\* pushed as a new stack item.
capture(m, insertions, deletions, within) ==
  IF m.state # "live" THEN m
  ELSE LET n == Len(m.undoStack)
       IN [m EXCEPT
             !.redoStack = << >>,
             !.undoStack =
               IF m.capturing /\ within /\ n > 0
               THEN [m.undoStack EXCEPT
                       ![n] = StackItem(@.ins \cup insertions, @.dels \cup deletions)]
               ELSE Append(m.undoStack, StackItem(insertions, deletions)),
             !.capturing = TRUE]

\* The end of the transaction of setValue on the yText h: the sequence
\* holds list2 (everything in a deleted sequence is deleted), the undo
\* manager of h hears of the transaction, the observers run and the update
\* is sent.
setValueCommit(s, c, h, within, dels, items, list2) ==
  LET dead == isDeleted(s, h)
      newIds == {items[i].id : i \in 1..Len(items)}
      tracked == ~dead /\ s.um[h].state = "live" /\ h = s.renderUndoManager
      s1 == [s EXCEPT
               !.seq[h] = IF dead THEN MarkDeleted(list2, Ids(list2)) ELSE list2,
               !.clk = @ + Len(items),
               !.um[h] = IF dead \/ ~trackedOrigins(UserOrigin) THEN @
                         ELSE capture(@, newIds, dels, within),
               !.scene = IF ~tracked THEN "none"
                         ELSE IF @ = "none" THEN "one" ELSE "many",
               !.lastEdit = [ins |-> newIds, dels |-> dels]]
  IN [s |-> observer(s1, h),
      msgs |-> <<Update(h, items, dels \cup (IF dead THEN newIds ELSE {}))>>,
      tx |-> TRUE]

\* The transaction of setValue with the edit region r: yText.delete of the
\* changed middle, then yText.insert of the new middle.
setValueTransact(s, c, h, within, r) ==
  LET list == s.seq[h]
      dels == IF r.deleteLen > 0
              THEN ytextDeleteIds(list, r.prefixLen, r.deleteLen)
              ELSE {}
      list1 == MarkDeleted(list, dels)
      pos == ytextInsertPos(list1, r.prefixLen)
      items == IF Len(r.insertText) > 0
               THEN NewItems(list1, pos, r.insertText, c, s.clk)
               ELSE << >>
  IN setValueCommit(s, c, h, within, dels, items, InsertRun(list1, pos, items))

\* setValue(next) of the last render: the early return, else one
\* transaction with the local origin that deletes the changed middle and
\* inserts the new middle into the yText of the closure.
setValue(s, c, next, within) ==
  LET h == s.renderYText
      prev == toString(s.seq[h])
  IN IF prev = next THEN [s |-> s, msgs |-> << >>, tx |-> FALSE]
     ELSE setValueTransact(s, c, h, within, editRegion(prev, next))

\* The provider applies an update of a peer in one transaction; the
\* observers run at its end, and the undo manager hears of it.
applyUpdate(s, m) ==
  IF m.type = "create"
  THEN LET old == mapGet(s)
           known == s.known \cup {m.h}
           s1 == [s EXCEPT !.known = known,
                           !.seq = IF old # NoHandle /\ Max(known) # old
                                   THEN deleteSequence(s.seq, old)
                                   ELSE s.seq]
       IN onMapChange(s1)
  ELSE LET merged == MarkDeleted(integrateAll(s.seq[m.h], m.ins), m.dels)
           list == IF isDeleted(s, m.h)
                   THEN MarkDeleted(merged, Ids(merged))
                   ELSE merged
           newIds == {m.ins[i].id : i \in 1..Len(m.ins)}
       IN observer([s EXCEPT !.seq[m.h] = list,
                             !.um[m.h] = IF isDeleted(s, m.h)
                                            \/ ~trackedOrigins(ProviderOrigin)
                                         THEN @
                                         ELSE capture(@, newIds, m.dels, FALSE),
                             !.scene = IF m.h # s.renderUndoManager
                                          \/ isDeleted(s, m.h)
                                       THEN @
                                       ELSE IF @ = "one" THEN "oneRemote"
                                       ELSE IF @ = "many" THEN "manyRemote"
                                       ELSE @],
                   m.h)

(***************************************************************************)
(* undo() and redo() of Y.UndoManager (popStackItem and redoItem of yjs).  *)
(***************************************************************************)
\* The ids of a set in the order a delete set is iterated: by client, then
\* by clock.
RECURSIVE SortedIds(_)
SortedIds(S) ==
  IF S = {} THEN << >>
  ELSE LET m == CHOOSE x \in S :
                  \A y \in S : x[1] < y[1] \/ (x[1] = y[1] /\ x[2] <= y[2])
       IN <<m>> \o SortedIds(S \ {m})

\* followRedone: the latest copy of an item that was redone.
RECURSIVE followRedone(_, _)
followRedone(list, id) ==
  LET it == list[IndexOfId(list, id)]
  IN IF it.redone = NoId THEN id ELSE followRedone(list, it.redone)

\* redoItem of the deleted item at index i: a copy with a fresh id of this
\* client goes right of the item at leftIdx and the item is marked as
\* redone by it.
redoItem(r, i, c, leftIdx, inRun) ==
  LET x == r.list[i]
      copy == [id |-> <<c, r.clk>>,
               ch |-> x.ch,
               org |-> IF leftIdx = 0 THEN NoId ELSE r.list[leftIdx].id,
               rorg |-> IF inRun THEN r.list[leftIdx].rorg ELSE x.id,
               del |-> FALSE,
               redone |-> NoId]
  IN [list |-> InsertAfter([r.list EXCEPT ![i].redone = copy.id], leftIdx, copy),
      clk |-> r.clk + 1,
      copies |-> Append(r.copies, copy),
      performed |-> TRUE]

\* redoItem for each deleted item of a stack item: a copy with a fresh id
\* of this client goes where the item was, left of its tombstone; items
\* that were one run are copied as one run.  An item that was already
\* redone is reported as redone again without a change, and nothing is
\* redone in a deleted sequence.
RECURSIVE redoItems(_, _, _, _, _)
redoItems(r, ids, c, batch, dead) ==
  IF ids = << >> THEN r
  ELSE
    LET id == Head(ids)
        i == IndexOfId(r.list, id)
        x == r.list[i]
    IN IF x.redone # NoId
       THEN redoItems([r EXCEPT !.performed = TRUE], Tail(ids), c, batch, dead)
       ELSE IF dead THEN redoItems(r, Tail(ids), c, batch, dead)
       ELSE
         LET inRun == /\ i > 1
                      /\ r.list[i - 1].id \in batch
                      /\ r.list[i - 1].id = <<id[1], id[2] - 1>>
                      /\ x.org = r.list[i - 1].id
                      /\ x.rorg = r.list[i - 1].rorg
         IN redoItems(redoItem(r, i, c,
                               IF inRun
                               THEN IndexOfId(r.list, r.list[i - 1].redone)
                               ELSE i - 1,
                               inRun),
                      Tail(ids), c, batch \cup {id}, dead)

\* popStackItem: stack items are popped until one performs a change.  The
\* insertions of the item are deleted (their latest copies, when they were
\* redone) and its deletions are redone, except what the same item
\* inserted.
RECURSIVE popStackItem(_, _, _, _, _)
RECURSIVE popStackItemApply(_, _, _, _, _, _, _)
popStackItemApply(list, stack, c, clk, dead, itemsToDelete, redone) ==
  IF redone.performed \/ itemsToDelete # {}
  THEN [list |-> MarkDeleted(redone.list, itemsToDelete),
        stack |-> SubSeq(stack, 1, Len(stack) - 1),
        clk |-> redone.clk,
        copies |-> redone.copies,
        dels |-> itemsToDelete,
        performed |-> TRUE,
        popped |-> 1,
        applied |-> stack[Len(stack)]]
  ELSE [popStackItem(list, SubSeq(stack, 1, Len(stack) - 1), c, clk, dead)
          EXCEPT !.popped = @ + 1]

popStackItem(list, stack, c, clk, dead) ==
  IF stack = << >>
  THEN [list |-> list, stack |-> stack, clk |-> clk, copies |-> << >>,
        dels |-> {}, performed |-> FALSE, popped |-> 0,
        applied |-> StackItem({}, {})]
  ELSE
    LET stackItem == stack[Len(stack)]
        here == Ids(list)
        itemsToDelete ==
          {d \in {followRedone(list, id) : id \in stackItem.ins \cap here} :
             ~list[IndexOfId(list, d)].del}
        itemsToRedo == (stackItem.dels \cap here) \ stackItem.ins
    IN popStackItemApply(
         list, stack, c, clk, dead, itemsToDelete,
         redoItems([list |-> list, clk |-> clk, copies |-> << >>,
                    performed |-> FALSE],
                   SortedIds(itemsToRedo), c, {}, dead))

\* undo() and redo() with a manager that hears of its own transaction even
\* when it changed nothing: an entry goes on the other stack every time.
undoRedoResultAlwaysHeard(s, h, undoing, r) ==
  LET m == s.um[h]
      changed == r.copies # << >> \/ r.dels # {}
      entry == StackItem({r.copies[i].id : i \in 1..Len(r.copies)}, r.dels)
      m1 == IF undoing
            THEN [m EXCEPT !.undoStack = r.stack, !.redoStack = Append(@, entry),
                           !.capturing = FALSE]
            ELSE [m EXCEPT !.redoStack = r.stack, !.undoStack = Append(@, entry)]
      s1 == [s EXCEPT !.seq[h] = r.list, !.clk = r.clk, !.um[h] = m1,
                      !.scene = "none"]
  IN [s |-> IF changed THEN observer(s1, h) ELSE s1,
      msgs |-> IF changed THEN <<Update(h, r.copies, r.dels)>> ELSE << >>,
      tx |-> changed,
      popped |-> r.popped,
      applied |-> r.applied]

\* undoManager.undo() / undoManager.redo() on the manager m of sequence h:
\* one transaction whose origin is the manager.  A manager that is not
\* destroyed hears of the transaction when it changed the sequence: what
\* an undo did goes on the redo stack and ends the capture interval, what
\* a redo did goes on the undo stack.
undoRedoResult(s, h, undoing, r) ==
  LET m == s.um[h]
      changed == r.copies # << >> \/ r.dels # {}
      entry == StackItem({r.copies[i].id : i \in 1..Len(r.copies)}, r.dels)
      heard == changed /\ m.state = "live"
      m1 == IF undoing
            THEN [m EXCEPT
                    !.undoStack = r.stack,
                    !.redoStack = IF heard THEN Append(@, entry) ELSE @,
                    !.capturing = IF heard THEN FALSE ELSE @]
            ELSE [m EXCEPT
                    !.redoStack = r.stack,
                    !.undoStack = IF heard THEN Append(@, entry) ELSE @]
      s1 == [s EXCEPT !.seq[h] = r.list, !.clk = r.clk, !.um[h] = m1,
                      !.scene = "none"]
  IN [s |-> IF changed THEN observer(s1, h) ELSE s1,
      msgs |-> IF changed THEN <<Update(h, r.copies, r.dels)>> ELSE << >>,
      tx |-> changed,
      popped |-> r.popped,
      applied |-> r.applied]

undoRedo(s, c, h, undoing) ==
  undoRedoResult(
    s, h, undoing,
    popStackItem(s.seq[h],
                 IF undoing THEN s.um[h].undoStack ELSE s.um[h].redoStack,
                 c, s.clk, isDeleted(s, h)))

(***************************************************************************)
(* The steps of the two clients.                                           *)
(***************************************************************************)
\* How many text changes and how many undo / redo key presses of the two
\* users are explored from the first render of the two text boxes on.
MaxEdits == 2
MaxKeys == 2
\* The same for two text boxes that are bound to one sequence.
MaxBoundEdits == 3
MaxBoundKeys == 1
\* Longest string a user types into a text box.
MaxLen == 2

\* e.target.value of a change event of the textarea that shows the string
\* shown: one character is typed somewhere, one character is removed, or
\* the selected text (all of it, after the focus) is removed or replaced
\* by a typed character.
Typed(shown) ==
  ( {SubSeq(shown, 1, i) \o <<ch>> \o SubSeq(shown, i + 1, Len(shown)) :
       i \in (IF Len(shown) < MaxLen THEN 0..Len(shown) ELSE {}), ch \in Alphabet}
    \cup {SubSeq(shown, 1, i - 1) \o SubSeq(shown, i + 1, Len(shown)) :
            i \in 1..Len(shown)}
    \cup {<<ch>> : ch \in Alphabet}
    \cup {<< >>} ) \ {shown}

Broadcast(c, msgs) ==
  [net EXCEPT ![c] = [d \in Clients |-> IF d = c THEN << >> ELSE net[c][d] \o msgs]]

\* What a step did, for the properties: the operation, the client, whether
\* it issued a transaction, the argument of setValue, whether the step
\* before was the same setValue call and issued a transaction, the
\* sequence acted on and its items before the step, the value of the
\* client before the step, whether the handler threw, and for an undo or a
\* redo the history before it, what popStackItem did, and every sequence
\* and every manager of the client before it, and for a setValue the
\* characters the textarea showed when the user typed.
NoStep ==
  [op |-> "none", c |-> 0, tx |-> FALSE, arg |-> << >>, again |-> FALSE,
   h |-> NoHandle, before |-> << >>, value |-> << >>, threw |-> FALSE,
   scene |-> "none",
   lastEdit |-> [ins |-> {}, dels |-> {}], popped |-> 0,
   applied |-> StackItem({}, {}),
   seqs |-> [h \in Handles |-> << >>],
   ums |-> [h \in Handles |-> NoManager],
   shown |-> {}]

Step(op, c) == [NoStep EXCEPT !.op = op, !.c = c, !.value = client[c].value]

NetIdle == net = [c \in Clients |-> [d \in Clients |-> << >>]]

TextInit ==
  /\ client = [c \in Clients |-> InitClient]
  /\ NetIdle
  /\ budget = [edits |-> MaxEdits, keys |-> MaxKeys]
  /\ last = NoStep

\* The text box of client c is rendered for the first time.
Mount(c) ==
  /\ ~client[c].mounted
  /\ LET r == useYTextInitialState(client[c], c)
     IN /\ client' = [client EXCEPT ![c] = r.s]
        /\ net' = Broadcast(c, r.msgs)
  /\ last' = Step("mount", c)
  /\ UNCHANGED <<budget, diffVars, store, ui, share, yjs>>

\* React renders the component of client c again after a state change.
Render(c) ==
  /\ renderPending(client[c])
  /\ client' = [client EXCEPT ![c] = render(@)]
  /\ last' = Step("render", c)
  /\ UNCHANGED <<net, budget, diffVars, store, ui, share, yjs>>

\* React runs the pending effects of client c.
RunEffects(c) ==
  /\ effectsPending(client[c])
  /\ client' = [client EXCEPT ![c] = runEffects(@)]
  /\ last' = Step("effects", c)
  /\ UNCHANGED <<net, budget, diffVars, store, ui, share, yjs>>

\* The provider of client to applies the oldest update sent by from.
Deliver(from, to) ==
  /\ from # to
  /\ net[from][to] # << >>
  /\ client' = [client EXCEPT ![to] = applyUpdate(@, Head(net[from][to]))]
  /\ net' = [net EXCEPT ![from][to] = Tail(@)]
  /\ last' = [Step("deliver", to) EXCEPT
                !.tx = Head(net[from][to]).type = "update",
                !.h = Head(net[from][to]).h,
                !.before = client[to].seq[Head(net[from][to]).h]]
  /\ UNCHANGED <<budget, diffVars, store, ui, share, yjs>>

\* The user of client c double-clicks the text box: it is rendered again
\* in editing mode, with the textarea.
handleDoubleClick(c) ==
  /\ client[c].mounted
  /\ ~client[c].isEditing
  /\ client' = [client EXCEPT ![c] = Editing(@)]
  /\ last' = Step("doubleClick", c)
  /\ UNCHANGED <<net, budget, diffVars, store, ui, share, yjs>>

\* The end of a change event whose setValue returned r: React renders
\* before the event ends, and the update is sent.
textChanged(c, next, r) ==
  /\ client' = [client EXCEPT ![c] = flushSync(r.s, FALSE)]
  /\ net' = Broadcast(c, r.msgs)
  /\ last' = [Step("setValue", c) EXCEPT
                !.tx = r.tx,
                !.arg = next,
                !.h = client[c].renderYText,
                !.before = client[c].seq[client[c].renderYText],
                !.shown = client[c].renderIds,
                !.again = /\ last.op = "setValue"
                          /\ last.c = c
                          /\ last.arg = next
                          /\ last.h = client[c].renderYText
                          /\ last.tx]

\* The user of client c changes the textarea: handleTextChange calls
\* setText(e.target.value), and React renders before the event ends.
handleTextChange(c, next, within) ==
  /\ client[c].isEditing
  /\ budget.edits > 0
  /\ textChanged(c, next, setValue(client[c], c, next, within))
  /\ budget' = [budget EXCEPT !.edits = @ - 1]
  /\ UNCHANGED <<diffVars, store, ui, share, yjs>>

\* The end of a key event whose undo() or redo() on the manager h returned
\* r.
undone(c, op, h, r) ==
  /\ client' = [client EXCEPT ![c] = flushSync(r.s, FALSE)]
  /\ net' = Broadcast(c, r.msgs)
  /\ last' = [Step(op, c) EXCEPT
                !.tx = r.tx,
                !.h = h,
                !.before = client[c].seq[h],
                !.scene = client[c].scene,
                !.lastEdit = client[c].lastEdit,
                !.popped = r.popped,
                !.applied = r.applied,
                !.seqs = client[c].seq,
                !.ums = client[c].um]

\* The call written undoManager?.undo(): nothing happens on null.
throwsTypeErrorNever(undoManager) == FALSE

\* undoManager.undo() and undoManager.redo() throw a TypeError when
\* undoManager is null.
throwsTypeError(undoManager) == undoManager = NoHandle

\* undoManager.undo() (undoing) or undoManager.redo() with the undoManager
\* of the last render, which is null after the first render: the binding
\* hands out undoManagerRef.current as it is while it renders, and the
\* effect that creates the manager runs after the first render.
callUndoManager(c, undoing) ==
  /\ budget.keys > 0
  /\ LET h == client[c].renderUndoManager
         op == IF undoing THEN "undo" ELSE "redo"
     IN IF h = NoHandle
        THEN /\ last' = [Step(op, c) EXCEPT !.threw = throwsTypeError(h),
                                            !.seqs = client[c].seq,
                                            !.ums = client[c].um]
             /\ UNCHANGED <<client, net>>
        ELSE undone(c, op, h, undoRedo(client[c], c, h, undoing))
  /\ budget' = [budget EXCEPT !.keys = @ - 1]
  /\ UNCHANGED <<diffVars, store, ui, share, yjs>>

\* The user of client c presses the undo (undoing) or the redo shortcut in
\* the textarea: handleKeyDown calls undoManager.undo() or
\* undoManager.redo().
handleKeyDown(c, undoing) ==
  /\ client[c].isEditing
  /\ callUndoManager(c, undoing)

\* undo() and redo() of useCollaborativeText, called by a consumer of the
\* binding at any time after its first render.
undo(c) ==
  /\ client[c].mounted
  /\ callUndoManager(c, TRUE)

redo(c) ==
  /\ client[c].mounted
  /\ callUndoManager(c, FALSE)

\* The effect of useTextBoxSync of client c, which runs after a render:
\* unless seededRef is set, a stored text that is not empty is written
\* with the setValue of that render into a sequence whose value is empty.
useTextBoxSyncEffect(c) ==
  /\ client[c].mounted
  /\ ~client[c].seededRef
  /\ client[c].text # << >>
  /\ client[c].renderValue = << >>
  /\ LET r == setValue([client[c] EXCEPT !.seededRef = TRUE], c, client[c].text, FALSE)
     IN /\ client' = [client EXCEPT ![c] = r.s]
        /\ net' = Broadcast(c, r.msgs)
        /\ last' = [Step("seed", c) EXCEPT
                      !.tx = r.tx,
                      !.arg = client[c].text,
                      !.h = client[c].renderYText,
                      !.before = client[c].seq[client[c].renderYText]]
  /\ UNCHANGED <<budget, diffVars, store, ui, share, yjs>>

\* Two clients load a text box whose stored text is in the slide list
\* while neither has a sequence for it yet.
SeedNext ==
  \/ \E c \in Clients : Mount(c) \/ Render(c) \/ RunEffects(c)
  \/ \E c, d \in Clients : Deliver(c, d)
  \/ \E c \in Clients : useTextBoxSyncEffect(c)

TextNext ==
  \/ \E c \in Clients : Mount(c) \/ Render(c) \/ RunEffects(c)
  \/ \E c \in Clients : handleDoubleClick(c)
  \/ \E c, d \in Clients : Deliver(c, d)
  \/ \E c \in Clients, within \in BOOLEAN :
       \E next \in Typed(client[c].renderValue) : handleTextChange(c, next, within)
  \/ \E c \in Clients, undoing \in BOOLEAN : handleKeyDown(c, undoing)
  \/ \E c \in Clients : undo(c) \/ redo(c)

(***************************************************************************)
(* The shared slide store (Liveblocks storage).  The slide list is one     *)
(* plain JSON array under the key 'slides' of the root object, so          *)
(* storage.set('slides', array) replaces the whole list.  The client       *)
(* applies its own set at once and sends it; the server applies the sets   *)
(* in the order it receives them and sends each one to every client, the   *)
(* sender included (the acknowledgement); a client keeps its own value of  *)
(* the key while one of its own sets is not acknowledged.                  *)
(***************************************************************************)
\* How many updateTextBox calls of the two clients are explored.
MaxCalls == 2

\* TEXT_BOX_DEFAULTS and SLIDE_DEFAULTS.
WIDTH == 200
HEIGHT == 100
FONT_SIZE == 16
COLOR == "gray.900"
BACKGROUND_COLOR == "white"

\* newTextBox of addTextBoxMutation; x stands for the position (x, y).
newTextBox(providedId, initialText, x, userId) ==
  [id |-> providedId, text |-> initialText, x |-> x,
   width |-> WIDTH, height |-> HEIGHT, fontSize |-> FONT_SIZE, color |-> COLOR,
   createdBy |-> userId]

TextBox(id) == newTextBox(id, "", 0, 1)

\* slide.backgroundColor and slide.createdAt of a record that does not
\* carry the field (undefined).
NoColor == "undefined"
NoTime == -1

\* a || b on a colour and on a time: undefined and the empty string are
\* falsy, and so are undefined and 0.
colorOr(a, b) == IF a \in {NoColor, ""} THEN b ELSE a
timeOr(a, b) == IF a \in {NoTime, 0} THEN b ELSE a

\* A slide record.  isArray is Array.isArray(slide.textBoxes): a slide of
\* the old format has no proper sequence of text boxes, and it may lack
\* its background colour and its creation time.
Slide(id, textBoxes) ==
  [id |-> id, isArray |-> TRUE, textBoxes |-> textBoxes,
   backgroundColor |-> BACKGROUND_COLOR, createdAt |-> 1]

\* The slide list at the start: a slide with two text boxes and a slide
\* with one.
InitSlides ==
  << Slide("s1", <<TextBox("t1"), TextBox("t2")>>),
     Slide("s2", <<TextBox("t3")>>) >>

SlideIds == {"s1", "s2"}
TextBoxIds == {"t1", "t2", "t3"}

\* The Partial<TextBox> arguments explored: a drag and a blur.
Updates == {[x |-> 1], [x |-> 2], [text |-> "a"]}

\* { ...textBox, ...updates } with the fields not in updates reset.
MergeResetsOthers(textBox, updates) ==
  [f \in DOMAIN textBox |->
     IF f \in DOMAIN updates THEN updates[f]
     ELSE IF f = "id" THEN textBox[f] ELSE TextBox(textBox.id)[f]]

\* { ...textBox, ...updates }
Merge(textBox, updates) ==
  [f \in DOMAIN textBox |-> IF f \in DOMAIN updates THEN updates[f] ELSE textBox[f]]

\* Array.isArray(slide.textBoxes) ? slide.textBoxes : []
existingTextBoxes(slide) == IF slide.isArray THEN slide.textBoxes ELSE << >>

\* updatedSlides of updateTextBoxMutation: currentSlides.map(...) with the
\* text box textBoxId of the slide slideId merged with updates.
updateTextBoxMutation(currentSlides, slideId, textBoxId, updates) ==
  [i \in 1..Len(currentSlides) |->
     LET slide == currentSlides[i]
     IN IF slide.id = slideId
        THEN [slide EXCEPT
                !.isArray = TRUE,
                !.textBoxes =
                  [j \in 1..Len(existingTextBoxes(slide)) |->
                     IF existingTextBoxes(slide)[j].id = textBoxId
                     THEN Merge(existingTextBoxes(slide)[j], updates)
                     ELSE existingTextBoxes(slide)[j]]]
        ELSE slide]

NoUpdate == [slideId |-> "none", textBoxId |-> "none", updates |-> [x |-> 0]]

NoRace == [on |-> FALSE, first |-> NoUpdate, second |-> NoUpdate]

\* The ids newId and newSlide.id take, in the order they are generated:
\* `textbox-${Date.now()}-${random}` and `slide-${Date.now()}-${random}`
\* name nothing that exists.
NewIds == <<"n1", "n2", "n3", "n4">>

\* The keys of the replicated text map.
TextKeys == TextBoxIds \cup {NewIds[i] : i \in 1..Len(NewIds)}

\* map.get(key) of a key without an entry.
NoText == "absent"

\* The text map at the start: a sequence for every text box, one of them
\* with text.
InitTexts ==
  [k \in TextKeys |-> IF k = "t1" THEN "a" ELSE IF k \in TextBoxIds THEN "" ELSE NoText]

\* What the last mutation call did, for the properties: the mutation, the
\* client, the arguments, the client's slide list and text map before and
\* after the call, whether storage.set was called, the value returned.
NoMutation ==
  [op |-> "none", c |-> 0, slideId |-> "none", textBoxId |-> "none",
   updates |-> [x |-> 0], before |-> << >>, after |-> << >>,
   textsBefore |-> InitTexts, textsAfter |-> InitTexts,
   wrote |-> FALSE, result |-> "none", threw |-> FALSE]

StoreStart ==
  [server |-> InitSlides,
   local |-> [c \in Clients |-> InitSlides],
   up |-> [c \in Clients |-> << >>],
   down |-> [c \in Clients |-> << >>],
   unacked |-> [c \in Clients |-> 0],
   lastCall |-> [c \in Clients |-> NoUpdate],
   race |-> NoRace,
   calls |-> MaxCalls,
   texts |-> [c \in Clients |-> InitTexts],
   textsUp |-> [c \in Clients |-> << >>],
   generated |-> 0,
   did |-> NoMutation]

StoreIdle == store = StoreStart

\* The slide slideId of the list holds the text box textBoxId.
Holds(slides, slideId, textBoxId) ==
  \E i \in 1..Len(slides) :
    /\ slides[i].id = slideId
    /\ \E j \in 1..Len(slides[i].textBoxes) : slides[i].textBoxes[j].id = textBoxId

\* A set of client d has not reached client c yet: it is on its way to the
\* server or from the server to c.
InFlight(d, c) ==
  \/ store.up[d] # << >>
  \/ \E i \in 1..Len(store.down[c]) : store.down[c][i].from = d

\* updateTextBox of client c: the mutation reads the client's copy of the
\* list and sets the key to the updated list.  The call races with the last
\* call of the other client when that call has not reached c and the two
\* calls are on different text boxes of one slide.
updateTextBox(c, slideId, textBoxId, updates) ==
  /\ store.calls > 0
  /\ LET currentSlides == store.local[c]
         updatedSlides ==
           updateTextBoxMutation(currentSlides, slideId, textBoxId, updates)
         call == [slideId |-> slideId, textBoxId |-> textBoxId,
                  updates |-> updates]
         d == CHOOSE o \in Clients : o # c
         other == store.lastCall[d]
         races == /\ other # NoUpdate
                  /\ InFlight(d, c)
                  /\ other.slideId = slideId
                  /\ other.textBoxId # textBoxId
                  /\ Holds(currentSlides, slideId, textBoxId)
                  /\ Holds(currentSlides, slideId, other.textBoxId)
     IN store' = [store EXCEPT
                    !.local[c] = updatedSlides,
                    !.up[c] = Append(@, updatedSlides),
                    !.unacked[c] = @ + 1,
                    !.lastCall[c] = call,
                    !.race = IF races
                             THEN [on |-> TRUE, first |-> other, second |-> call]
                             ELSE NoRace,
                    !.calls = @ - 1,
                    !.did = [NoMutation EXCEPT
                               !.op = "updateTextBox", !.c = c,
                               !.slideId = slideId, !.textBoxId = textBoxId,
                               !.updates = updates,
                               !.before = currentSlides, !.after = updatedSlides,
                               !.textsBefore = store.texts[c],
                               !.textsAfter = store.texts[c],
                               !.wrote = TRUE]]
  /\ UNCHANGED <<diffVars, textVars, ui, share, yjs>>

\* The server applies the oldest set sent by client c and sends it on.
ServerReceive(c) ==
  /\ store.up[c] # << >>
  /\ LET slides == Head(store.up[c])
     IN store' = [store EXCEPT
                    !.server = slides,
                    !.up[c] = Tail(@),
                    !.down = [d \in Clients |->
                                Append(@[d], [from |-> c, slides |-> slides])]]
  /\ UNCHANGED <<diffVars, textVars, ui, share, yjs>>

\* Client c receives the oldest message of the server: the acknowledgement
\* of a set of its own, or a set of the other client, which it applies
\* unless a set of its own is not acknowledged.
ClientReceive(c) ==
  /\ store.down[c] # << >>
  /\ LET m == Head(store.down[c])
     IN store' = [store EXCEPT
                    !.down[c] = Tail(@),
                    !.unacked[c] = IF m.from = c THEN @ - 1 ELSE @,
                    !.local[c] = IF m.from # c /\ store.unacked[c] = 0
                                 THEN m.slides ELSE @]
  /\ UNCHANGED <<diffVars, textVars, ui, share, yjs>>

(***************************************************************************)
(* The other mutations of the slide list: addTextBox, addSlide,            *)
(* deleteSlide and migrateSlides.                                          *)
(***************************************************************************)
\* How many mutation calls of the two clients are explored when every
\* mutation is.
MaxMutations == 2

\* The positions Math.random() gives a new text box, and the times
\* Date.now() returns: later than every time stored at the start.
Positions == {1, 2}
Times == {2, 3}

\* addTextBoxMutation with the new text box put first.
addTextBoxMutationPrepends(currentSlides, slideId, providedId, initialText, x, userId) ==
  [i \in 1..Len(currentSlides) |->
     IF currentSlides[i].id = slideId
     THEN [currentSlides[i] EXCEPT
             !.isArray = TRUE,
             !.backgroundColor = colorOr(@, "white"),
             !.textBoxes = <<newTextBox(providedId, initialText, x, userId)>>
                             \o existingTextBoxes(currentSlides[i])]
     ELSE currentSlides[i]]

\* updatedSlides of addTextBoxMutation: the slide slideId gets the new text
\* box at the end of its text boxes and 'white' for a missing background.
addTextBoxMutation(currentSlides, slideId, providedId, initialText, x, userId) ==
  [i \in 1..Len(currentSlides) |->
     IF currentSlides[i].id = slideId
     THEN [currentSlides[i] EXCEPT
             !.isArray = TRUE,
             !.backgroundColor = colorOr(@, "white"),
             !.textBoxes = Append(existingTextBoxes(currentSlides[i]),
                                  newTextBox(providedId, initialText, x, userId))]
     ELSE currentSlides[i]]

\* The transaction of addTextBox: if (!map.get(newId)) map.set(newId, new
\* Y.Text()).
createText(texts, newId) ==
  IF texts[newId] = NoText THEN [texts EXCEPT ![newId] = ""] ELSE texts

\* addSlide with the new slide put first.
addSlideMutationPrepends(currentSlides, id, now) ==
  <<[id |-> id, isArray |-> TRUE, textBoxes |-> << >>,
     backgroundColor |-> BACKGROUND_COLOR, createdAt |-> now]>> \o currentSlides

\* [...currentSlides, newSlide] of addSlide.
addSlideMutation(currentSlides, id, now) ==
  Append(currentSlides,
         [id |-> id, isArray |-> TRUE, textBoxes |-> << >>,
          backgroundColor |-> BACKGROUND_COLOR, createdAt |-> now])

\* deleteSlide cutting the list at the slide.
deleteSlideMutationTruncates(currentSlides, slideId) ==
  IF \E i \in 1..Len(currentSlides) : currentSlides[i].id = slideId
  THEN SubSeq(currentSlides, 1,
              (CHOOSE i \in 1..Len(currentSlides) : currentSlides[i].id = slideId) - 1)
  ELSE currentSlides

\* filteredSlides of deleteSlide.
deleteSlideMutation(currentSlides, slideId) ==
  SelectSeq(currentSlides, LAMBDA slide : slide.id # slideId)

\* migrateSlides giving every migrated slide the default background.
migrateSlidesMutationResetsColor(currentSlides, now) ==
  [needsMigration |-> \E i \in 1..Len(currentSlides) : ~currentSlides[i].isArray,
   migratedSlides |->
     [i \in 1..Len(currentSlides) |->
        IF ~currentSlides[i].isArray
        THEN [id |-> currentSlides[i].id, isArray |-> TRUE, textBoxes |-> << >>,
              backgroundColor |-> BACKGROUND_COLOR,
              createdAt |-> timeOr(currentSlides[i].createdAt, now)]
        ELSE currentSlides[i]]]

\* migrateSlides writing whenever it is called.
migrateSlidesMutationAlwaysWrites(currentSlides, now) ==
  [needsMigration |-> TRUE,
   migratedSlides |->
     [i \in 1..Len(currentSlides) |->
        IF ~currentSlides[i].isArray
        THEN [id |-> currentSlides[i].id, isArray |-> TRUE, textBoxes |-> << >>,
              backgroundColor |-> colorOr(currentSlides[i].backgroundColor,
                                          BACKGROUND_COLOR),
              createdAt |-> timeOr(currentSlides[i].createdAt, now)]
        ELSE [currentSlides[i] EXCEPT !.createdAt = now]]]

\* needsMigration and migratedSlides of migrateSlides.
migrateSlidesMutation(currentSlides, now) ==
  [needsMigration |-> \E i \in 1..Len(currentSlides) : ~currentSlides[i].isArray,
   migratedSlides |->
     [i \in 1..Len(currentSlides) |->
        IF ~currentSlides[i].isArray
        THEN [id |-> currentSlides[i].id, isArray |-> TRUE, textBoxes |-> << >>,
              backgroundColor |-> colorOr(currentSlides[i].backgroundColor,
                                          BACKGROUND_COLOR),
              createdAt |-> timeOr(currentSlides[i].createdAt, now)]
        ELSE currentSlides[i]]]

\* storage.set('slides', slides) of client c when wrote, and the record of
\* the call.
mutated(c, did, slides, wrote) ==
  [store EXCEPT
     !.local[c] = IF wrote THEN slides ELSE @,
     !.up[c] = IF wrote THEN Append(@, slides) ELSE @,
     !.unacked[c] = IF wrote THEN @ + 1 ELSE @,
     !.calls = @ - 1,
     !.did = [did EXCEPT !.c = c, !.before = store.local[c],
                         !.after = IF wrote THEN slides ELSE store.local[c],
                         !.wrote = wrote]]

\* addTextBox of client c: the id is generated, the sequence is created in
\* a transaction of the document (sent to the other client), and the
\* mutation appends the record.
addTextBox(c, slideId, x) ==
  /\ store.calls > 0
  /\ store.generated < Len(NewIds)
  /\ LET newId == NewIds[store.generated + 1]
         created == createText(store.texts[c], newId)
     IN store' = [mutated(c, [NoMutation EXCEPT
                                !.op = "addTextBox", !.slideId = slideId,
                                !.textBoxId = newId,
                                !.textsBefore = store.texts[c],
                                !.textsAfter = created],
                          addTextBoxMutation(store.local[c], slideId, newId, "", x, c),
                          TRUE)
                    EXCEPT !.texts[c] = created,
                           !.textsUp[c] = IF created # store.texts[c]
                                          THEN Append(@, newId) ELSE @,
                           !.generated = @ + 1]
  /\ UNCHANGED <<diffVars, textVars, ui, share, yjs>>

\* The other client applies the oldest create transaction of client c.
TextsReceive(c) ==
  /\ store.textsUp[c] # << >>
  /\ LET d == CHOOSE o \in Clients : o # c
     IN store' = [store EXCEPT
                    !.textsUp[c] = Tail(@),
                    !.texts[d] = createText(@, Head(store.textsUp[c]))]
  /\ UNCHANGED <<diffVars, textVars, ui, share, yjs>>

\* addSlide of client c; it returns newSlide.id.
addSlide(c, now) ==
  /\ store.calls > 0
  /\ store.generated < Len(NewIds)
  /\ LET id == NewIds[store.generated + 1]
     IN store' = [mutated(c, [NoMutation EXCEPT
                                !.op = "addSlide", !.result = id,
                                !.textsBefore = store.texts[c],
                                !.textsAfter = store.texts[c]],
                          addSlideMutation(store.local[c], id, now),
                          TRUE)
                    EXCEPT !.generated = @ + 1]
  /\ UNCHANGED <<diffVars, textVars, ui, share, yjs>>

\* deleteSlide of client c.
deleteSlide(c, slideId) ==
  /\ store.calls > 0
  /\ store' = mutated(c, [NoMutation EXCEPT
                            !.op = "deleteSlide", !.slideId = slideId,
                            !.textsBefore = store.texts[c],
                            !.textsAfter = store.texts[c]],
                      deleteSlideMutation(store.local[c], slideId),
                      TRUE)
  /\ UNCHANGED <<diffVars, textVars, ui, share, yjs>>

\* migrateSlides of client c: storage.set only if (needsMigration).
migrateSlides(c, now) ==
  /\ store.calls > 0
  /\ store' = mutated(c, [NoMutation EXCEPT
                            !.op = "migrateSlides",
                            !.textsBefore = store.texts[c],
                            !.textsAfter = store.texts[c]],
                      migrateSlidesMutation(store.local[c], now).migratedSlides,
                      migrateSlidesMutation(store.local[c], now).needsMigration)
  /\ UNCHANGED <<diffVars, textVars, ui, share, yjs>>

\* The ids handed to the mutations: those of the first slides and text
\* boxes, and the first generated id, which names nothing before it is
\* generated.
SlideArgs == SlideIds \cup {NewIds[1]}
TextBoxArgs == TextBoxIds \cup {NewIds[1]}

SlidesNext ==
  \/ \E c \in Clients, slideId \in SlideArgs, textBoxId \in TextBoxArgs,
        updates \in Updates : updateTextBox(c, slideId, textBoxId, updates)
  \/ \E c \in Clients, slideId \in SlideArgs, x \in Positions : addTextBox(c, slideId, x)
  \/ \E c \in Clients, now \in Times : addSlide(c, now)
  \/ \E c \in Clients, slideId \in SlideArgs : deleteSlide(c, slideId)
  \/ \E c \in Clients, now \in Times : migrateSlides(c, now)
  \/ \E c \in Clients : ServerReceive(c)
  \/ \E c \in Clients : ClientReceive(c)
  \/ \E c \in Clients : TextsReceive(c)

\* Slide lists that hold a slide of the old format: one that lacks its
\* background colour and creation time, one that has them, and one whose
\* background colour is the empty string and whose creation time is 0.
OldSlide(id, backgroundColor, createdAt) ==
  [id |-> id, isArray |-> FALSE, textBoxes |-> << >>,
   backgroundColor |-> backgroundColor, createdAt |-> createdAt]

StartLists ==
  { InitSlides,
    << OldSlide("s1", NoColor, NoTime), Slide("s2", <<TextBox("t3")>>) >>,
    << Slide("s1", <<TextBox("t1"), TextBox("t2")>>), OldSlide("s2", "blue", 1) >>,
    << OldSlide("s1", "", 0), Slide("s2", <<TextBox("t3")>>) >> }

SlidesStart(slides) ==
  [StoreStart EXCEPT !.server = slides,
                     !.local = [c \in Clients |-> slides],
                     !.calls = MaxMutations]

StoreNext ==
  \/ \E c \in Clients, slideId \in SlideIds, textBoxId \in TextBoxIds,
        updates \in Updates : updateTextBox(c, slideId, textBoxId, updates)
  \/ \E c \in Clients : ServerReceive(c)
  \/ \E c \in Clients : ClientReceive(c)

(***************************************************************************)
(* The slide list UI of one client (SlideList, SlideCanvas, TextBox): the  *)
(* link it was opened with, its presence, the elements that are rendered   *)
(* and the handlers behind them.  A handler runs only when its element is  *)
(* rendered; the mutations the handlers call are recorded in invoked.      *)
(* Slide ids are numbers here, and the text boxes of slide n are           *)
(* <<n, 1>>, <<n, 2>>, ...                                                 *)
(***************************************************************************)
\* How many slides the user adds, and how many text boxes a slide holds.
MaxAddedSlides == 1
MaxTextBoxes == 1

\* How many other participants the room holds, and how many slides they
\* add.
MaxPeers == 2
MaxRemoteSlides == 1

Peers == 1..MaxPeers

\* The ids of the slides of a session: 1 and 2, then the ones its user adds,
\* then the ones the other participants add.
RemoteSlideIds ==
  (2 + MaxAddedSlides + 1)..(2 + MaxAddedSlides + MaxRemoteSlides)

RoomSlideIds == 1..(2 + MaxAddedSlides + MaxRemoteSlides)

RoomTextBoxIds == {<<n, k>> : n \in RoomSlideIds, k \in 1..MaxTextBoxes}

\* The texts a text box holds.
BoxTexts == {<< >>, <<"a">>}

\* currentSlideId: null and editingTextBoxId: null of the presence.
NoSlide == 0
NoTextBox == <<0, 0>>

\* search.get(...) of a parameter the link does not carry.
Absent == "absent"

\* The longest shared parameter explored, and the longest one a UI session
\* is opened with.
MaxParamLen == 6
MaxUiParamLen == 3

\* The characters of the shared parameter: the comma and the digits 1 and 2.
\* A slide id is the number its digits spell.
Comma == 0
ParamChars == {Comma, 1, 2}

ParamsUpTo(n) == UNION {[1..k -> ParamChars] : k \in 0..n}

\* The links a session is opened with: the shared parameter absent or any
\* string of commas and digits; the edit parameter absent, "true" or "false".
LinksUpTo(n) ==
  [shared : {[present |-> FALSE, value |-> << >>]}
              \cup {[present |-> TRUE, value |-> v] : v \in ParamsUpTo(n)},
   edit : {Absent, "true", "false"}]

Links == LinksUpTo(MaxUiParamLen)

\* sharedParam.split(','): the pieces between the commas, the empty ones
\* included; the empty string gives one empty piece.
RECURSIVE split(_)
split(str) ==
  IF \A i \in 1..Len(str) : str[i] # Comma
  THEN <<str>>
  ELSE LET k == CHOOSE i \in 1..Len(str) :
                  str[i] = Comma /\ \A j \in 1..(i - 1) : str[j] # Comma
       IN <<SubSeq(str, 1, k - 1)>> \o split(SubSeq(str, k + 1, Len(str)))

\* .filter(Boolean) on strings: the empty string is falsy.
filterBoolean(pieces) == SelectSeq(pieces, LAMBDA piece : piece # << >>)

\* The id a piece spells.
RECURSIVE idOf(_)
idOf(piece) ==
  IF piece = << >> THEN 0
  ELSE 10 * idOf(SubSeq(piece, 1, Len(piece) - 1)) + piece[Len(piece)]

\* allowedSlideIds: null, or new Set(ids).
NullIds == [null |-> TRUE, ids |-> {}]
SetOfIds(ids) == [null |-> FALSE, ids |-> {idOf(ids[i]) : i \in 1..Len(ids)}]

\* The first useMemo of useShareMode: !sharedParam holds for an absent
\* parameter (null) and for an empty one ("").
parseShareParams(link) ==
  LET sharedParam == link.shared
      editParam == link.edit
  IN IF ~sharedParam.present \/ sharedParam.value = << >>
     THEN [allowedSlideIds |-> NullIds, canEdit |-> FALSE]
     ELSE [allowedSlideIds |-> SetOfIds(filterBoolean(split(sharedParam.value))),
           canEdit |-> editParam = "true"]

\* useShareMode with readOnly taken from the edit flag alone.
useShareModeEditFlagOnly(link) ==
  LET parsed == parseShareParams(link)
  IN [readOnly |-> ~parsed.canEdit,
      allowedSlideIds |-> parsed.allowedSlideIds,
      isSharedMode |-> ~parsed.allowedSlideIds.null]

\* useShareMode without its slide list: isSharedMode and readOnly.
useShareMode(link) ==
  LET parsed == parseShareParams(link)
      shared == ~parsed.allowedSlideIds.null
  IN [readOnly |-> shared /\ ~parsed.canEdit,
      allowedSlideIds |-> parsed.allowedSlideIds,
      isSharedMode |-> shared]

\* The second useMemo with the filter left out.
visibleSlidesUnfiltered(loaded, slides, allowedSlideIds) ==
  IF ~loaded THEN << >> ELSE slides

\* The second useMemo of useShareMode: visibleSlides.  loaded is false
\* while slides is null.
visibleSlidesMemo(loaded, slides, allowedSlideIds) ==
  IF ~loaded THEN << >>
  ELSE IF allowedSlideIds.null THEN slides
  ELSE SelectSeq(slides, LAMBDA slide : slide.id \in allowedSlideIds.ids)

\* The slide lists useShareMode is handed: the slides 1, 2 and 3 in any
\* number and order.
ShareSlideIds == {1, 2, 3}

SlideListsOf(ids) ==
  {l \in UNION {[1..k -> [id : ids]] : k \in 0..Cardinality(ids)} :
     \A i, j \in 1..Len(l) : l[i].id = l[j].id => i = j}

SlideLists == SlideListsOf(ShareSlideIds)

\* The ShareDialog is not rendered: SlideList renders it only outside of
\* the shared mode and when there are slides.
NoUrl == [shared |-> [present |-> FALSE, value |-> << >>], edit |-> Absent]

NoDialog ==
  [mounted |-> FALSE, open |-> FALSE, selectedIds |-> << >>, canEdit |-> FALSE,
   shareUrl |-> NoUrl]

\* The ids of the slides a ShareDialog is rendered with.
DialogSlideIds == {1, 2, 12}

\* No render has used the current slide list yet.
NoRender ==
  [rendered |-> FALSE, readOnly |-> FALSE, visibleSlides |-> << >>,
   allowedSlideIds |-> NullIds, isSharedMode |-> FALSE]

\* A session with its link before the storage is loaded (slides is null).
ShareStart(link) ==
  [link |-> link, loaded |-> FALSE, slides |-> << >>, out |-> NoRender,
   dialog |-> NoDialog]

ShareIdle ==
  share = ShareStart([shared |-> [present |-> FALSE, value |-> << >>], edit |-> Absent])

\* A render of SlideList: what useShareMode(slides) returns.
useShareModeResult(link, loaded, slides) ==
  LET mode == useShareMode(link)
  IN [rendered |-> TRUE,
      readOnly |-> mode.readOnly,
      visibleSlides |-> visibleSlidesMemo(loaded, slides, mode.allowedSlideIds),
      allowedSlideIds |-> mode.allowedSlideIds,
      isSharedMode |-> mode.isSharedMode]

ShareRender ==
  /\ ~share.out.rendered
  /\ share' = [share EXCEPT !.out = useShareModeResult(share.link, share.loaded, share.slides)]
  /\ UNCHANGED <<diffVars, textVars, store, ui, yjs>>

\* useStorage hands the component a new slide list: the storage has been
\* loaded, or a mutation of any client has changed the list.
ShareStorage ==
  /\ share.out.rendered
  /\ \E slides \in SlideLists :
       /\ ~share.loaded \/ slides # share.slides
       /\ share' = [share EXCEPT !.loaded = TRUE, !.slides = slides, !.out = NoRender]
  /\ UNCHANGED <<diffVars, textVars, store, ui, yjs>>

ShareNext == ShareRender \/ ShareStorage

(***************************************************************************)
(* The ShareDialog: the slides selected, the edit flag, and the link made  *)
(* of them.  The query of a link is kept as its two parameters, each value *)
(* in the form the link carries it.                                        *)
(***************************************************************************)
\* %2C, the escape URLSearchParams writes for the comma: the percent sign
\* (3), the digit 2 and the letter C (4).
CommaEscape == <<3, 2, 4>>

\* slide.id as a string: the digits that spell the id.
RECURSIVE digits(_)
digits(n) == IF n = 0 THEN << >> ELSE digits(n \div 10) \o <<n % 10>>

\* selectedIds.join(',') with the separator left out.
RECURSIVE joinNoSeparator(_)
joinNoSeparator(ids) ==
  IF ids = << >> THEN << >>
  ELSE digits(Head(ids)) \o joinNoSeparator(Tail(ids))

\* selectedIds.join(',')
RECURSIVE join(_)
join(ids) ==
  IF ids = << >> THEN << >>
  ELSE IF Len(ids) = 1 THEN digits(Head(ids))
  ELSE digits(Head(ids)) \o <<Comma>> \o join(Tail(ids))

\* params.toString() of a value: the comma is percent-encoded, the digits
\* are written as they are.
RECURSIVE serialize(_)
serialize(value) ==
  IF value = << >> THEN << >>
  ELSE (IF Head(value) = Comma THEN CommaEscape ELSE <<Head(value)>>)
         \o serialize(Tail(value))

\* new URLSearchParams(search) of a value: the escapes are decoded.
RECURSIVE parse(_)
parse(value) ==
  IF value = << >> THEN << >>
  ELSE IF Len(value) >= 3 /\ SubSeq(value, 1, 3) = CommaEscape
  THEN <<Comma>> \o parse(SubSeq(value, 4, Len(value)))
  ELSE <<Head(value)>> \o parse(Tail(value))

\* The link a browser is opened with, as useShareMode reads it.
URLSearchParams(url) ==
  [shared |-> [present |-> url.shared.present, value |-> parse(url.shared.value)],
   edit |-> url.edit]

\* shareUrl: the parameters of the current link with shared and edit set
\* from the selection, or both deleted when nothing is selected.
shareUrl(link, selectedIds, canEdit) ==
  LET params ==
        IF Len(selectedIds) > 0
        THEN [link EXCEPT !.shared = [present |-> TRUE, value |-> join(selectedIds)],
                          !.edit = IF canEdit THEN "true" ELSE "false"]
        ELSE [link EXCEPT !.shared = [present |-> FALSE, value |-> << >>],
                          !.edit = Absent]
  IN [params EXCEPT !.shared.value = serialize(@)]

\* A render of the ShareDialog.
ShareDialog(link, open, selectedIds, canEdit) ==
  [mounted |-> TRUE, open |-> open, selectedIds |-> selectedIds, canEdit |-> canEdit,
   shareUrl |-> shareUrl(link, selectedIds, canEdit)]

\* handleOpenChange: the dialog is opened with the Share button or closed
\* with its close trigger.
handleOpenChange(open) ==
  /\ share.dialog.mounted
  /\ share.dialog.open # open
  /\ LET d == share.dialog
         slideIds == [i \in 1..Len(share.slides) |-> share.slides[i].id]
     IN share' = [share EXCEPT !.dialog =
                    IF open
                    THEN ShareDialog(share.link, TRUE,
                                     IF Len(d.selectedIds) > 0 THEN d.selectedIds
                                     ELSE slideIds,
                                     FALSE)
                    ELSE ShareDialog(share.link, FALSE, d.selectedIds, d.canEdit)]
  /\ UNCHANGED <<diffVars, textVars, store, ui, yjs>>

\* Click on the checkbox of a slide.
onClickSlide(slideId) ==
  /\ share.dialog.open
  /\ \E i \in 1..Len(share.slides) : share.slides[i].id = slideId
  /\ LET d == share.dialog
         isChecked == \E i \in 1..Len(d.selectedIds) : d.selectedIds[i] = slideId
     IN share' = [share EXCEPT !.dialog =
                    ShareDialog(share.link, TRUE,
                                IF isChecked
                                THEN SelectSeq(d.selectedIds, LAMBDA id : id # slideId)
                                ELSE Append(d.selectedIds, slideId),
                                d.canEdit)]
  /\ UNCHANGED <<diffVars, textVars, store, ui, yjs>>

\* Click on the checkbox "Allow editing".
onClickCanEdit ==
  /\ share.dialog.open
  /\ LET d == share.dialog
     IN share' = [share EXCEPT !.dialog =
                    ShareDialog(share.link, TRUE, d.selectedIds, ~d.canEdit)]
  /\ UNCHANGED <<diffVars, textVars, store, ui, yjs>>

\* Click on the button "Close": setOpen(false).
onClickClose ==
  /\ share.dialog.open
  /\ LET d == share.dialog
     IN share' = [share EXCEPT !.dialog =
                    ShareDialog(share.link, FALSE, d.selectedIds, d.canEdit)]
  /\ UNCHANGED <<diffVars, textVars, store, ui, yjs>>

DialogNext ==
  \/ \E open \in BOOLEAN : handleOpenChange(open)
  \/ \E slideId \in DialogSlideIds : onClickSlide(slideId)
  \/ onClickCanEdit
  \/ onClickClose

(***************************************************************************)
(* The YjsProvider of one session: the contexts (a Y.Doc and its           *)
(* LiveblocksYjsProvider) it has created, the one in contextRef, the one   *)
(* in the closure of its effect, the one its last render handed to the     *)
(* components below it, and the text boxes that use it.                    *)
(***************************************************************************)
\* How many contexts a session creates, and how many text boxes use them.
MaxContexts == 4
MaxChildren == 3

Contexts == 1..MaxContexts
Children == 1..MaxChildren

\* contextRef.current === null, and the value of an unmounted consumer.
NoContext == 0

\* createYjsForRoom(room): a new Y.Doc and a new provider for it.
createYjsForRoom == [connected |-> FALSE, destroyed |-> FALSE]

\* A text box that is not rendered.  doc is the document useYjs() gave its
\* last render, yText the document of the sequence in its state, which it
\* took from the map at its first render.
NoChild == [mounted |-> FALSE, doc |-> NoContext, yText |-> NoContext]

\* The session before the YjsProvider is rendered; strictMode tells whether
\* React runs the development-mode check of StrictMode.
YjsStart(strictMode) ==
  [strictMode |-> strictMode,
   phase |-> "unmounted",
   contextRef |-> NoContext,
   ctx |-> NoContext,
   value |-> NoContext,
   created |-> 0,
   contexts |-> [i \in Contexts |-> createYjsForRoom],
   children |-> [c \in Children |-> NoChild]]

YjsIdle == yjs = YjsStart(FALSE)

\* The render of YjsProvider: the context is created when contextRef holds
\* none, and contextRef.current is handed to the consumers below, which
\* render with it.
YjsProvider(y) ==
  LET fresh == y.contextRef = NoContext
      current == IF fresh THEN y.created + 1 ELSE y.contextRef
  IN [y EXCEPT !.contextRef = current,
               !.created = IF fresh THEN @ + 1 ELSE @,
               !.value = current,
               !.children = [c \in Children |->
                               IF y.children[c].mounted
                               THEN [y.children[c] EXCEPT !.doc = current]
                               ELSE y.children[c]]]

\* The setup of the effect: ctx?.provider.connect() with the context that
\* contextRef holds when the effect runs.
setup(y) ==
  IF y.contextRef # NoContext
  THEN [y EXCEPT !.ctx = y.contextRef, !.contexts[y.contextRef].connected = TRUE]
  ELSE [y EXCEPT !.ctx = NoContext]

\* The cleanup of the effect: the context of its closure is destroyed and
\* contextRef is cleared.
cleanup(y) ==
  IF y.ctx # NoContext
  THEN [y EXCEPT !.contexts[y.ctx].destroyed = TRUE, !.contextRef = NoContext]
  ELSE y

\* React renders the YjsProvider for the first time.
YjsMount ==
  /\ yjs.phase = "unmounted"
  /\ yjs.created < MaxContexts
  /\ yjs' = [YjsProvider(yjs) EXCEPT !.phase = "rendered"]
  /\ UNCHANGED <<diffVars, textVars, store, ui, share>>

\* React runs the effect after the first render; under StrictMode in
\* development it then runs the cleanup and the setup once more.
YjsEffect ==
  /\ yjs.phase = "rendered"
  /\ yjs' = [setup(yjs) EXCEPT !.phase = IF yjs.strictMode THEN "setup" ELSE "mounted"]
  /\ UNCHANGED <<diffVars, textVars, store, ui, share>>

YjsStrictCleanup ==
  /\ yjs.phase = "setup"
  /\ yjs' = [cleanup(yjs) EXCEPT !.phase = "cleanup"]
  /\ UNCHANGED <<diffVars, textVars, store, ui, share>>

YjsStrictSetup ==
  /\ yjs.phase = "cleanup"
  /\ yjs' = [setup(yjs) EXCEPT !.phase = "mounted"]
  /\ UNCHANGED <<diffVars, textVars, store, ui, share>>

\* React renders the YjsProvider again: its parent has rendered.
YjsRender ==
  /\ yjs.phase = "mounted"
  /\ yjs.contextRef = NoContext => yjs.created < MaxContexts
  /\ yjs' = YjsProvider(yjs)
  /\ UNCHANGED <<diffVars, textVars, store, ui, share>>

\* The session leaves the room: the YjsProvider and everything below it
\* is unmounted, and the cleanup of the effect runs.  A YjsProvider that
\* is mounted later starts with a contextRef of its own.
YjsUnmount ==
  /\ yjs.phase = "mounted"
  /\ yjs' = [cleanup(yjs) EXCEPT !.phase = "unmounted",
                                 !.contextRef = NoContext,
                                 !.ctx = NoContext,
                                 !.value = NoContext,
                                 !.children = [c \in Children |-> NoChild]]
  /\ UNCHANGED <<diffVars, textVars, store, ui, share>>

\* A text box is rendered for the first time: useYjs() gives it the value
\* of the context.
ChildMount(c) ==
  /\ yjs.phase = "mounted"
  /\ ~yjs.children[c].mounted
  /\ yjs' = [yjs EXCEPT !.children[c] =
                [mounted |-> TRUE, doc |-> yjs.value, yText |-> yjs.value]]
  /\ UNCHANGED <<diffVars, textVars, store, ui, share>>

\* A text box is no longer rendered.
ChildUnmount(c) ==
  /\ yjs.phase = "mounted"
  /\ yjs.children[c].mounted
  /\ yjs' = [yjs EXCEPT !.children[c] = NoChild]
  /\ UNCHANGED <<diffVars, textVars, store, ui, share>>

YjsNext ==
  \/ YjsMount
  \/ YjsEffect
  \/ YjsStrictCleanup
  \/ YjsStrictSetup
  \/ YjsRender
  \/ YjsUnmount
  \/ \E c \in Children : ChildMount(c) \/ ChildUnmount(c)

readOnly(u) == useShareMode(u.link).readOnly

isSharedMode(u) == useShareMode(u.link).isSharedMode

\* visibleSlides of useShareMode, as the ids of the thumbnails rendered.
visibleSlides(u) ==
  LET shown == visibleSlidesMemo(TRUE, u.slides, useShareMode(u.link).allowedSlideIds)
  IN {shown[i].id : i \in 1..Len(shown)}

\* others: a participant that is not in the room, and one that has just
\* entered it with the initial presence.
Offline == [online |-> FALSE, currentSlideId |-> NoSlide]
Joined == [online |-> TRUE, currentSlideId |-> NoSlide]

\* The badge of PresenceInfo: "Only you", or the number of users online.
PresenceInfoOthersOnly(others) ==
  LET othersCount == Cardinality({p \in DOMAIN others : others[p].online})
  IN [onlyYou |-> othersCount = 0, users |-> othersCount]

PresenceInfo(others) ==
  LET othersCount == Cardinality({p \in DOMAIN others : others[p].online})
  IN [onlyYou |-> othersCount = 0,
      users |-> IF othersCount = 0 THEN 0 ELSE othersCount + 1]

\* The session at its start, after the first render and its effects: two
\* slides with one text box each, nothing selected, nobody else in the room.
\* unseeded holds the text boxes whose stored text is not empty while their
\* sequence is.  value is the text of the sequence of a text box, text the
\* text of its record in the slide list, and seeded the mounted text boxes
\* whose seededRef is set.
UiStart(link, unseeded) ==
  [link |-> link,
   slides |-> << [id |-> 1, textBoxes |-> 1], [id |-> 2, textBoxes |-> 1] >>,
   prevSlideCount |-> 2,
   currentSlideId |-> NoSlide,
   editingTextBoxId |-> NoTextBox,
   others |-> [p \in Peers |-> Offline],
   presenceInfo |-> PresenceInfo([p \in Peers |-> Offline]),
   peerEvent |-> "none",
   dragging |-> NoTextBox,
   value |-> [t \in RoomTextBoxIds |-> << >>],
   text |-> [t \in RoomTextBoxIds |-> IF t \in unseeded THEN <<"a">> ELSE << >>],
   seeded |-> {},
   added |-> 0,
   remoteAdded |-> 0,
   invoked |-> {},
   refused |-> {}]

UiIdle == ui = UiStart([shared |-> [present |-> FALSE, value |-> << >>], edit |-> Absent], {})

\* slides.find((s) => s.id === myPresence.currentSlideId)
hasActiveSlide(u) == \E i \in 1..Len(u.slides) : u.slides[i].id = u.currentSlideId

activeSlide(u) ==
  u.slides[CHOOSE i \in 1..Len(u.slides) : u.slides[i].id = u.currentSlideId]

\* The condition under which SlideList renders the SlideCanvas.
canvasRendered(u) ==
  /\ hasActiveSlide(u)
  /\ \/ ~readOnly(u)
     \/ /\ isSharedMode(u)
        /\ u.currentSlideId \in useShareMode(u.link).allowedSlideIds.ids

\* The TextBox components that are mounted.
textBoxesRendered(u) ==
  IF canvasRendered(u)
  THEN {<<u.currentSlideId, k>> : k \in 1..activeSlide(u).textBoxes}
  ELSE {}

\* isEditing as SlideCanvas hands it to the TextBox.
isEditing(u, textBoxId) == ~readOnly(u) /\ u.editingTextBoxId = textBoxId

Invoke(u, entry, by) ==
  [u EXCEPT !.invoked = @ \cup {[entry |-> entry, by |-> by]}]

Refuse(u, handler) == [u EXCEPT !.refused = @ \cup {handler}]

\* The thumbnail badge: the others whose presence is on this slide, and
\* the same with the comparison of the slide ids left out.
othersOnThisSlideAll(u, slideId) == {p \in Peers : u.others[p].online}

othersOnThisSlide(u, slideId) ==
  {p \in Peers : u.others[p].online /\ u.others[p].currentSlideId = slideId}

\* activeSlide.id is read in the render only behind `activeSlide &&`, in
\* the test of the allowed set; reading it of undefined is a TypeError.
renderThrows(u) ==
  LET readsActiveSlideId ==
        hasActiveSlide(u) /\ readOnly(u) /\ ~useShareMode(u.link).allowedSlideIds.null
  IN readsActiveSlideId /\ ~hasActiveSlide(u)

\* A render of SlideList and PresenceInfo: a TextBox that is no longer
\* rendered loses its isDragging state and its seededRef.
rendered(u) ==
  [u EXCEPT !.dragging = IF @ \in textBoxesRendered(u) THEN @ ELSE NoTextBox,
            !.seeded = @ \cap textBoxesRendered(u),
            !.presenceInfo = PresenceInfo(u.others)]

\* The effect of useTextBoxSync of the TextBox components that are mounted:
\* a sequence that is empty while the stored text is not is seeded with the
\* stored text, once per mounted TextBox.
useTextBoxSync(u) ==
  LET seeds == {t \in textBoxesRendered(u) \ u.seeded :
                  u.text[t] # << >> /\ u.value[t] = << >>}
  IN IF seeds = {} THEN u
     ELSE Invoke([u EXCEPT !.seeded = @ \cup seeds,
                           !.value = [t \in RoomTextBoxIds |->
                                        IF t \in seeds THEN u.text[t]
                                        ELSE u.value[t]]],
                 "setValue", "effect")

\* The auto-follow effect of SlideList.
autoFollow(u) ==
  LET currentSlideCount == Len(u.slides)
      prevSlideCount == u.prevSlideCount
      counted == [u EXCEPT !.prevSlideCount = currentSlideCount]
  IN IF currentSlideCount > prevSlideCount /\ prevSlideCount > 0
     THEN LET newSlide == u.slides[currentSlideCount]
              someoneElseAddedIt ==
                \E p \in Peers : /\ u.others[p].online
                                 /\ u.others[p].currentSlideId = newSlide.id
          IN IF someoneElseAddedIt /\ u.currentSlideId # newSlide.id
             THEN [counted EXCEPT !.currentSlideId = newSlide.id,
                                  !.editingTextBoxId = NoTextBox]
             ELSE counted
     ELSE counted

\* React renders after the event and runs the effects; when the
\* auto-follow effect has updated the presence it renders again.
commit(next) ==
  LET first == useTextBoxSync(rendered(next))
      followed == autoFollow(first)
  IN IF followed.currentSlideId = first.currentSlideId
     THEN followed
     ELSE useTextBoxSync(rendered(followed))

\* The textarea that is being edited has the focus; pressing the mouse or
\* clicking outside of the text boxes takes it away, and handleBlur runs:
\* onUpdate(textBox.id, { text: collaborativeText }) and onStopEditing().
blurred(u, textBoxId) ==
  [Invoke(u, "updateTextBox", "event")
     EXCEPT !.text[textBoxId] = u.value[textBoxId],
            !.editingTextBoxId = NoTextBox]

focusLeaves(u) ==
  IF \E t \in textBoxesRendered(u) : isEditing(u, t)
  THEN commit(blurred(u, u.editingTextBoxId))
  ELSE u

\* The early returns of handleMouseDown, with the guard as a mutation of it
\* would leave it.
mouseDownRefusedOnTextareaOnly(isReadOnly, editing, onTextarea) ==
  editing /\ onTextarea

mouseDownRefused(isReadOnly, editing, onTextarea) ==
  isReadOnly \/ (editing /\ onTextarea)

\* Mouse down on a text box.  The textarea stops the propagation of its own
\* mouse down, so the event reaches the handler from outside of it; the
\* handler prevents the default, so the focus stays where it is.
handleMouseDown(textBoxId) ==
  /\ textBoxId \in textBoxesRendered(ui)
  /\ ui' = IF mouseDownRefused(readOnly(ui), isEditing(ui, textBoxId), FALSE)
           THEN Refuse(ui, "mouseDown")
           ELSE commit([ui EXCEPT !.dragging = textBoxId])
  /\ UNCHANGED <<diffVars, textVars, store, share, yjs>>

\* Mouse move on the window: the listener is registered while isDragging.
handleMouseMove ==
  /\ ui.dragging \in textBoxesRendered(ui)
  /\ ui' = commit(Invoke(ui, "updateTextBox", "event"))
  /\ UNCHANGED <<diffVars, textVars, store, share, yjs>>

handleMouseUp ==
  /\ ui.dragging \in textBoxesRendered(ui)
  /\ ui' = commit([ui EXCEPT !.dragging = NoTextBox])
  /\ UNCHANGED <<diffVars, textVars, store, share, yjs>>

\* Double click on a text box, outside of a textarea: handleDoubleClick of
\* TextBox and handleStartEditing of SlideCanvas.
onDoubleClick(textBoxId) ==
  /\ textBoxId \in textBoxesRendered(ui)
  /\ ui' = IF ~readOnly(ui)
           THEN commit([ui EXCEPT !.editingTextBoxId = textBoxId])
           ELSE Refuse(ui, "doubleClick")
  /\ UNCHANGED <<diffVars, textVars, store, share, yjs>>

\* handleTextChange: setCollaborativeText(e.target.value), the setValue of
\* the binding of this text box, which writes the sequence of its id; and
\* the same as it would be if typing stored the text in the slide list too.
setCollaborativeTextStoresText(u, textBoxId, next) ==
  [Invoke(u, "setValue", "event") EXCEPT !.value[textBoxId] = next,
                                         !.text[textBoxId] = next]

setCollaborativeText(u, textBoxId, next) ==
  [Invoke(u, "setValue", "event") EXCEPT !.value[textBoxId] = next]

\* The user types into the textarea, which is rendered while isEditing.
onChange(textBoxId) ==
  /\ textBoxId \in textBoxesRendered(ui)
  /\ isEditing(ui, textBoxId)
  /\ \E next \in BoxTexts \ {ui.value[textBoxId]} :
       ui' = commit(setCollaborativeText(ui, textBoxId, next))
  /\ UNCHANGED <<diffVars, textVars, store, share, yjs>>

\* The textarea loses the focus.
handleBlur(textBoxId) ==
  /\ textBoxId \in textBoxesRendered(ui)
  /\ isEditing(ui, textBoxId)
  /\ ui' = commit(blurred(ui, textBoxId))
  /\ UNCHANGED <<diffVars, textVars, store, share, yjs>>

\* Click on the canvas.  A click on a text box outside of its textarea
\* bubbles to the canvas and the focus has stayed in the textarea; a click
\* on the background has taken the focus away before.
handleCanvasClick(onTextBox) ==
  /\ canvasRendered(ui)
  /\ onTextBox => textBoxesRendered(ui) # {}
  /\ LET u == IF onTextBox THEN ui ELSE focusLeaves(ui)
     IN ui' = IF u.editingTextBoxId # NoTextBox
              THEN commit([u EXCEPT !.editingTextBoxId = NoTextBox])
              ELSE u
  /\ UNCHANGED <<diffVars, textVars, store, share, yjs>>

\* Click on "+ Add Text Box", which SlideCanvas renders unless readOnly.
handleAddTextBox ==
  /\ canvasRendered(ui)
  /\ ~readOnly(ui)
  /\ activeSlide(ui).textBoxes < MaxTextBoxes
  /\ LET i == CHOOSE j \in 1..Len(ui.slides) : ui.slides[j].id = ui.currentSlideId
     IN ui' = commit([Invoke(focusLeaves(ui), "addTextBox", "event")
                        EXCEPT !.slides[i].textBoxes = @ + 1])
  /\ UNCHANGED <<diffVars, textVars, store, share, yjs>>

\* Click on "+ Add Slide", which SlideList renders unless isSharedMode: the
\* new slide has no text box and becomes the current slide.
handleAddSlide ==
  /\ ~isSharedMode(ui)
  /\ ui.added < MaxAddedSlides
  /\ LET newSlideId == 3 + ui.added
     IN ui' = commit([Invoke(focusLeaves(ui), "addSlide", "event") EXCEPT
                        !.slides = Append(@, [id |-> newSlideId, textBoxes |-> 0]),
                        !.added = @ + 1,
                        !.currentSlideId = newSlideId])
  /\ UNCHANGED <<diffVars, textVars, store, share, yjs>>

\* Click on the delete button of a thumbnail, which SlideThumbnail renders
\* unless isSharedMode; confirmed is the answer to window.confirm.
handleDeleteSlide(slideId, confirmed) ==
  /\ ~isSharedMode(ui)
  /\ slideId \in visibleSlides(ui)
  /\ ui' = IF confirmed
           THEN commit([Invoke(focusLeaves(ui), "deleteSlide", "event") EXCEPT
                          !.slides = SelectSeq(@, LAMBDA s : s.id # slideId)])
           ELSE Refuse(focusLeaves(ui), "deleteSlide")
  /\ UNCHANGED <<diffVars, textVars, store, share, yjs>>

\* Click on a thumbnail.
handleSelectSlide(slideId) ==
  /\ slideId \in visibleSlides(ui)
  /\ ui' = commit([focusLeaves(ui) EXCEPT !.currentSlideId = slideId,
                                          !.editingTextBoxId = NoTextBox])
  /\ UNCHANGED <<diffVars, textVars, store, share, yjs>>

UiNext ==
  \/ \E textBoxId \in textBoxesRendered(ui) : handleMouseDown(textBoxId)
  \/ handleMouseMove
  \/ handleMouseUp
  \/ \E textBoxId \in textBoxesRendered(ui) : onDoubleClick(textBoxId)
  \/ \E textBoxId \in textBoxesRendered(ui) : onChange(textBoxId)
  \/ \E textBoxId \in textBoxesRendered(ui) : handleBlur(textBoxId)
  \/ \E onTextBox \in BOOLEAN : handleCanvasClick(onTextBox)
  \/ handleAddTextBox
  \/ handleAddSlide
  \/ \E slideId \in visibleSlides(ui), confirmed \in BOOLEAN :
       handleDeleteSlide(slideId, confirmed)
  \/ \E slideId \in visibleSlides(ui) : handleSelectSlide(slideId)

(***************************************************************************)
(* The room as the session sees it: useOthers and useStorage hand the      *)
(* components the presence of the other participants and the slide list    *)
(* the others have changed, and React renders.                             *)
(***************************************************************************)
\* Another participant enters the room.
PeerJoin(p) ==
  /\ ~ui.others[p].online
  /\ ui' = commit([ui EXCEPT !.others[p] = Joined, !.peerEvent = "join"])
  /\ UNCHANGED <<diffVars, textVars, store, share, yjs>>

\* Another participant leaves the room.
PeerLeave(p) ==
  /\ ui.others[p].online
  /\ ui' = commit([ui EXCEPT !.others[p] = Offline, !.peerEvent = "leave"])
  /\ UNCHANGED <<diffVars, textVars, store, share, yjs>>

\* The presence of another participant arrives: it has selected or added a
\* slide, which this session may not hold yet or any more.
PeerPresence(p, slideId) ==
  /\ ui.others[p].online
  /\ ui.others[p].currentSlideId # slideId
  /\ ui' = commit([ui EXCEPT !.others[p].currentSlideId = slideId])
  /\ UNCHANGED <<diffVars, textVars, store, share, yjs>>

\* The slide list arrives with a slide another participant has added.
RemoteAddSlide ==
  /\ \E p \in Peers : ui.others[p].online
  /\ ui.remoteAdded < MaxRemoteSlides
  /\ LET newSlideId == 2 + MaxAddedSlides + ui.remoteAdded + 1
     IN ui' = commit([ui EXCEPT
                        !.slides = Append(@, [id |-> newSlideId, textBoxes |-> 0]),
                        !.remoteAdded = @ + 1])
  /\ UNCHANGED <<diffVars, textVars, store, share, yjs>>

\* The slide list arrives without a slide another participant has deleted.
RemoteDeleteSlide(slideId) ==
  /\ \E p \in Peers : ui.others[p].online
  /\ \E i \in 1..Len(ui.slides) : ui.slides[i].id = slideId
  /\ ui' = commit([ui EXCEPT
                     !.slides = SelectSeq(@, LAMBDA s : s.id # slideId)])
  /\ UNCHANGED <<diffVars, textVars, store, share, yjs>>

\* The user selects slides and edits text boxes while the others come and
\* go, select, add and delete slides.
RoomNext ==
  \/ \E textBoxId \in textBoxesRendered(ui) : onDoubleClick(textBoxId)
  \/ \E textBoxId \in textBoxesRendered(ui) : onChange(textBoxId)
  \/ \E textBoxId \in textBoxesRendered(ui) : handleBlur(textBoxId)
  \/ \E onTextBox \in BOOLEAN : handleCanvasClick(onTextBox)
  \/ \E slideId \in visibleSlides(ui) : handleSelectSlide(slideId)
  \/ \E p \in Peers : PeerJoin(p)
  \/ \E p \in Peers : PeerLeave(p)
  \/ \E p \in Peers, slideId \in RoomSlideIds \cup {NoSlide} :
       PeerPresence(p, slideId)
  \/ RemoteAddSlide
  \/ \E slideId \in RoomSlideIds : RemoteDeleteSlide(slideId)

DiffIdle ==
  /\ diffPrev = << >>
  /\ diffNext = << >>
  /\ diffOut = NoCall

\* Two text boxes with the same id, from their first render on.
Init == TextInit /\ DiffIdle /\ StoreIdle /\ UiIdle /\ ShareIdle /\ YjsIdle

Spec == Init /\ [][TextNext]_vars

\* The stored texts of the text box the two clients load.
Snapshots == StringsUpTo(MaxLen)

SeedInit ==
  /\ \E text \in Snapshots :
       client = [c \in Clients |-> [InitClient EXCEPT !.text = text]]
  /\ NetIdle
  /\ budget = [edits |-> MaxEdits, keys |-> MaxKeys]
  /\ last = NoStep
  /\ DiffIdle
  /\ StoreIdle
  /\ UiIdle
  /\ ShareIdle
  /\ YjsIdle

SpecSeed == SeedInit /\ [][SeedNext]_vars

\* Two text boxes bound to one sequence: client 1 rendered the text box
\* first and created the sequence, client 2 rendered it after the entry
\* had arrived, and both users have double-clicked their text box.
BoundInit ==
  /\ client =
       [c \in Clients |->
          IF c = 1
          THEN Editing(useYTextInitialState(InitClient, 1).s)
          ELSE Editing(
                 useYTextInitialState(applyUpdate(InitClient, Create(1)), 2).s)]
  /\ NetIdle
  /\ budget = [edits |-> MaxBoundEdits, keys |-> MaxBoundKeys]
  /\ last = NoStep
  /\ DiffIdle
  /\ StoreIdle
  /\ UiIdle
  /\ ShareIdle
  /\ YjsIdle

BoundNext ==
  \/ \E c \in Clients : Render(c)
  \/ \E c, d \in Clients : Deliver(c, d)
  \/ \E c \in Clients, within \in BOOLEAN :
       \E next \in Typed(client[c].renderValue) : handleTextChange(c, next, within)
  \/ \E c \in Clients, undoing \in BOOLEAN : handleKeyDown(c, undoing)

SpecBound == BoundInit /\ [][BoundNext]_vars

\* The replicas hold the same items for every sequence once no update is
\* in flight (the redone marks are local to a replica).
Replicated(list) == [i \in 1..Len(list) |-> [list[i] EXCEPT !.redone = NoId]]

ReplicasConverge ==
  NetIdle =>
    \A h \in Handles : Replicated(client[1].seq[h]) = Replicated(client[2].seq[h])

(***************************************************************************)
(* Properties of the text binding.                                         *)
(***************************************************************************)
\* Client c has rendered its state and run its effects.
Settled(c) ==
  /\ client[c].mounted
  /\ ~renderPending(client[c])
  /\ ~effectsPending(client[c])

\* Every update has been delivered and both clients have settled.
Quiescent == NetIdle /\ \A c \in Clients : Settled(c)

\* Client c has issued a transaction of setValue.
Edited(c) == client[c].lastEdit # [ins |-> {}, dels |-> {}]

\* The step was a change of sequence last.h at client c, by a peer's
\* update or by c itself.
Changed(c) ==
  /\ last.c = c
  /\ last.op \in {"deliver", "setValue", "undo", "redo"}
  /\ last.tx

\* C1: two bindings to the same text-box id, each fed setValue calls while
\* the other's operations are undelivered, expose the same value once every
\* operation has been delivered to both.
C1_BindingsConverge ==
  (Quiescent /\ \A c \in Clients : Edited(c)) =>
    client[1].value = client[2].value

\* C5: a consumer subscribed before the map entry was replaced receives a
\* value update for every later change of the new sequence: after such a
\* change the value is the string of the new sequence.
C5_SubscriberHearsNewSequence ==
  \A c \in Clients :
    ( /\ Changed(c)
      /\ client[c].rebound
      /\ last.h = client[c].yText
      /\ last.h = mapGet(client[c]) )
    => client[c].value = toString(client[c].seq[last.h])

\* C6: in every state after a map change for the key has been processed the
\* value is the string of the sequence stored under the key, and a later
\* change of the sequence bound before does not change the value.
C6_ValueFollowsMapEntry ==
  \A c \in Clients :
    client[c].rebound =>
      /\ client[c].value = toString(client[c].seq[mapGet(client[c])])
      /\ (Changed(c) /\ last.h # mapGet(client[c]))
           => client[c].value = last.value

\* C7: setValue(next) with next equal to the string of the sequence issues
\* no transaction and leaves the sequence unchanged, and setValue(x) called
\* twice in a row on the same sequence issues at most one transaction.
C7_SetValueIdempotent ==
  last.op = "setValue" =>
    /\ last.arg = toString(last.before)
         => (~last.tx /\ client[last.c].seq[last.h] = last.before)
    /\ last.again => ~last.tx

\* Both clients found no sequence under the key and created one, and each
\* has applied the other's create transaction.
CreatesExchanged ==
  \A c \in Clients :
    /\ client[c].mounted
    /\ client[c].known = Clients
    /\ \A d \in Clients : \A i \in 1..Len(net[c][d]) : net[c][d][i].type # "create"

C32_RebindKeepsTypedCharacters ==
  [][\A c \in Clients :
       ( /\ client[c].yText # NoHandle
         /\ client'[c].yText # client[c].yText )
       => LET typed == toString(client[c].seq[client[c].yText])
              exposed == client'[c].value
          IN \A i \in 1..Len(typed) : \E j \in 1..Len(exposed) : exposed[j] = typed[i]]_vars

\* C37: at every point after the effects of the mount have run, a binding
\* has its change observer on the sequence it is bound to and on no
\* sequence bound before, and its observer on the containing map.
C37_ObserverOnBoundSequence ==
  \A c \in Clients :
    (client[c].mounted /\ client[c].effectYText # NoHandle) =>
      /\ client[c].observed = client[c].yText
      /\ client[c].mapObserved # NoHandle

\* C33: when two clients each load the same text box whose stored text is
\* not empty while their sequence is still empty, then after both have
\* seeded and synchronized the sequence holds the stored text exactly once.
C33_SeededOnce ==
  (Quiescent /\ \A c \in Clients : client[c].seededRef) =>
    \A c \in Clients :
      toString(client[c].seq[mapGet(client[c])]) = client[c].text

ItemOf(list, id) == list[IndexOfId(list, id)]

\* The characters a step hid, and the deleted characters it restored by a
\* copy.
Hidden(before, after) == VisibleIds(before) \ VisibleIds(after)

Restored(before, after) ==
  {id \in Ids(before) :
     ItemOf(before, id).redone = NoId /\ ItemOf(after, id).redone # NoId}

\* The step was an undo of client c that came after local edits and then
\* an edit of the peer to the same sequence.
UndoAfterRemote(c) ==
  /\ last.op = "undo"
  /\ last.c = c
  /\ last.scene \in {"oneRemote", "manyRemote"}

\* C4 as stated: after local edits and then a peer's edit, undo() reverts
\* the most recent local edit and nothing else: exactly what that edit
\* inserted is hidden and exactly what it deleted is restored.
C4_UndoRevertsLastEditOnly ==
  \A c \in Clients :
    UndoAfterRemote(c) =>
      LET after == client[c].seq[last.h]
      IN /\ Hidden(last.before, after) = VisibleIds(last.before) \cap last.lastEdit.ins
         /\ Restored(last.before, after) = last.lastEdit.dels

\* C4, amended: after local edits and then a peer's edit, undo() reverts
\* local edits only, and one group of them: the most recent stack item that
\* still has an effect, which holds the edits made within the capture
\* timeout of each other.  The peer's characters remain, the group holds
\* the most recent local edit when it is the first one popped, and the
\* groups left on the undo stack remain applied.
C4_UndoRevertsOneLocalGroup ==
  \A c \in Clients :
    UndoAfterRemote(c) =>
      LET after == client[c].seq[last.h]
          hidden == Hidden(last.before, after)
          restored == Restored(last.before, after)
          stack == client[c].um[last.h].undoStack
      IN /\ \A id \in hidden : id[1] = c
         /\ hidden \subseteq
              {followRedone(last.before, id) :
                 id \in last.applied.ins \cap Ids(last.before)}
         /\ restored \subseteq last.applied.dels \ last.applied.ins
         /\ (last.tx /\ last.popped = 1) =>
              /\ last.lastEdit.ins \subseteq last.applied.ins
              /\ last.lastEdit.dels \subseteq last.applied.dels
         /\ \A k \in 1..Len(stack) :
              /\ stack[k].ins \cap hidden = {}
              /\ stack[k].dels \cap restored = {}

\* An undo after two separate local edits and a peer's insertion that hid
\* the last edit's character while the first edit's character and the
\* peer's character stay visible.
C4_Witness ==
  \E c \in Clients :
    /\ UndoAfterRemote(c)
    /\ last.scene = "manyRemote"
    /\ last.popped = 1
    /\ last.applied = last.lastEdit
    /\ Hidden(last.before, client[c].seq[last.h]) # {}
    /\ Len(client[c].um[last.h].undoStack) > 0
    /\ \E id \in VisibleIds(client[c].seq[last.h]) : id[1] # c
    /\ \E id \in VisibleIds(client[c].seq[last.h]) : id[1] = c

\* C9: when the bound sequence changes identity the undo manager of the old
\* sequence is destroyed and a new one is created for the new sequence, and
\* undo() and redo() through the binding then change the new sequence
\* only and leave every character from before the rebind as it was.
C9_UndoManagerFollowsRebind ==
  \A c \in Clients :
    /\ (client[c].rebound /\ Settled(c)) =>
         /\ client[c].undoManagerRef = client[c].yText
         /\ client[c].um[client[c].yText].state = "live"
         /\ \A h \in Handles \ {client[c].yText} :
              client[c].um[h].state = "destroyed"
    /\ (client[c].rebound /\ last.c = c /\ last.op \in {"undo", "redo"}) =>
         /\ last.tx => last.h = client[c].yText
         /\ \A h \in Handles \ {client[c].yText} :
              h = last.h => client[c].seq[h] = last.before
         /\ \A id \in Ids(last.before) \cap client[c].preRebind :
              ItemOf(client[c].seq[last.h], id).del = ItemOf(last.before, id).del

\* An undo through a binding that was rebound after a local edit to the old
\* sequence: it reverts an edit to the new sequence, made after the rebind.
C9_Witness ==
  \E c \in Clients :
    /\ client[c].rebound
    /\ Settled(c)
    /\ last.c = c
    /\ last.op = "undo"
    /\ last.tx
    /\ \E id \in client[c].preRebind : id[1] = c
    /\ \E h \in Handles : client[c].um[h].state = "destroyed"

\* The step was this call of client c: setValue, undo or redo.
Called(c, op) == last.op = op /\ last.c = c

\* C29: a keystroke applied through handleTextChange changes the sequence
\* only by the user's own insertion or deletion: the setValue it results
\* in deletes no character of a peer that had been applied to the local
\* sequence but was not in the text the user typed into.
C29_KeystrokeKeepsUnseenRemoteText ==
  \A c \in Clients :
    (Called(c, "setValue") /\ last.h = mapGet(client[c])) =>
      \A id \in Hidden(last.before, client[c].seq[last.h]) :
        id[1] # c => id \in last.shown

\* C25: undo() with an empty undo stack and redo() with an empty redo stack
\* leave every sequence and both stacks as they were and raise no error.
C25_EmptyStackNoOp ==
  \A c \in Clients :
    /\ (Called(c, "undo") /\ last.h # NoHandle
          /\ last.ums[last.h].undoStack = << >>)
         => /\ client[c].seq = last.seqs
            /\ client[c].um[last.h].undoStack = << >>
            /\ client[c].um[last.h].redoStack = last.ums[last.h].redoStack
            /\ ~last.tx
            /\ ~last.threw
    /\ (Called(c, "redo") /\ last.h # NoHandle
          /\ last.ums[last.h].redoStack = << >>)
         => /\ client[c].seq = last.seqs
            /\ client[c].um[last.h].redoStack = << >>
            /\ client[c].um[last.h].undoStack = last.ums[last.h].undoStack
            /\ ~last.tx
            /\ ~last.threw

\* redo() with nothing to redo, after an edit that is on the undo stack
\* and whose text is in the sequence.
C25_Witness ==
  \E c \in Clients :
    /\ Called(c, "redo")
    /\ last.h # NoHandle
    /\ last.ums[last.h].redoStack = << >>
    /\ last.ums[last.h].undoStack # << >>
    /\ toString(client[c].seq[last.h]) # << >>

\* C26: undo() or redo() through a binding that has not handed out its
\* undo manager yet (undoManager is null in the calling code) raises an
\* error and changes no sequence and no history.
C26_FailsLoudlyWithoutManager ==
  \A c \in Clients :
    ((Called(c, "undo") \/ Called(c, "redo")) /\ last.h = NoHandle) =>
      /\ last.threw
      /\ ~last.tx
      /\ client[c].seq = last.seqs
      /\ client[c].um = last.ums

\* undo() is called after the first render of a text box whose sequence a
\* peer has typed into, before its undo manager is handed out.
C26_Witness ==
  \E c \in Clients :
    /\ Called(c, "undo")
    /\ last.h = NoHandle
    /\ last.threw
    /\ toString(client[c].seq[client[c].yText]) # << >>

(***************************************************************************)
(* The shared slide store and the UI from their first state on.            *)
(***************************************************************************)
StoreInit ==
  /\ store = StoreStart
  /\ TextInit
  /\ DiffIdle
  /\ UiIdle
  /\ ShareIdle
  /\ YjsIdle

SpecStore == StoreInit /\ [][StoreNext]_vars

\* A session is opened with any of the links, with text boxes to seed or
\* none.
UiInit ==
  /\ \E link \in Links, unseeded \in {{}, {<<1, 1>>}, {<<1, 1>>, <<2, 1>>}} :
       ui = UiStart(link, unseeded)
  /\ TextInit
  /\ DiffIdle
  /\ StoreIdle
  /\ ShareIdle
  /\ YjsIdle

SpecUI == UiInit /\ [][UiNext]_vars

\* The links a room is entered with: the owner's, and a link that shares
\* slide 1 with and without the right to edit.
RoomLinks ==
  {[shared |-> [present |-> FALSE, value |-> << >>], edit |-> Absent]}
    \cup {[shared |-> [present |-> TRUE, value |-> <<1>>], edit |-> e] :
            e \in {"true", "false"}}

\* The session of a room whose deck is still empty (initialStorage).
EmptyDeck(link) ==
  [UiStart(link, {}) EXCEPT !.slides = << >>, !.prevSlideCount = 0]

\* A room is entered while its deck is empty or holds two slides.
RoomInit ==
  /\ \E link \in RoomLinks :
       ui \in {EmptyDeck(link), UiStart(link, {})}
  /\ TextInit
  /\ DiffIdle
  /\ StoreIdle
  /\ ShareIdle
  /\ YjsIdle

SpecRoom == RoomInit /\ [][RoomNext]_vars

StoreQuiescent ==
  \A c \in Clients : store.up[c] = << >> /\ store.down[c] = << >>

\* Every copy of the slide list is the server's once nothing is in flight.
StoreConverges ==
  StoreQuiescent => \A c \in Clients : store.local[c] = store.server

\* The fields of the call are the fields of its text box in the list.
Landed(slides, call) ==
  \E i \in 1..Len(slides) :
    /\ slides[i].id = call.slideId
    /\ \E j \in 1..Len(slides[i].textBoxes) :
         /\ slides[i].textBoxes[j].id = call.textBoxId
         /\ \A f \in DOMAIN call.updates :
              slides[i].textBoxes[j][f] = call.updates[f]

\* C3: when two clients call updateTextBox concurrently on two different
\* text boxes of one slide, the slide list holds both updates once both
\* sets have reached the server and every client.
C3_BothUpdatesLand ==
  (StoreQuiescent /\ store.race.on) =>
    /\ Landed(store.server, store.race.first)
    /\ Landed(store.server, store.race.second)
    /\ \A c \in Clients :
         /\ Landed(store.local[c], store.race.first)
         /\ Landed(store.local[c], store.race.second)

\* C10: while readOnly is true no UI event (mouse down and drag on a text
\* box, double click, typing, blur, add text box, add slide, delete slide)
\* makes the client invoke addSlide, deleteSlide, addTextBox, updateTextBox
\* or setValue.
C10_ReadOnlyGate ==
  readOnly(ui) => \A i \in ui.invoked : i.by # "event"

\* A read-only session shows a text box, and the user has pressed the
\* mouse on it and double-clicked it.
C10_Witness ==
  /\ readOnly(ui)
  /\ textBoxesRendered(ui) # {}
  /\ {"mouseDown", "doubleClick"} \subseteq ui.refused

\* C31: a read-only client writes to neither store through its effects:
\* mounting the slide list and the text boxes of a visible slide makes no
\* effect invoke a structural mutation or a transaction on the text map.
C31_ReadOnlyEffectsWriteNothing ==
  readOnly(ui) => \A i \in ui.invoked : i.by # "effect"

\* The ids of the slides the session holds.
LocalSlideIds == {ui.slides[i].id : i \in 1..Len(ui.slides)}

\* C27: the presence indicator shows "Only you" exactly when the list of
\* the other participants is empty, and otherwise the number of the other
\* participants plus one; it does so after every join and leave.
C27_PresenceInfoCountsUsers ==
  LET othersCount == Cardinality({p \in Peers : ui.others[p].online})
  IN /\ ui.presenceInfo.onlyYou <=> othersCount = 0
     /\ ~ui.presenceInfo.onlyYou => ui.presenceInfo.users = othersCount + 1

\* Two participants had joined and one of them has left: two users are
\* online.
C27_Witness ==
  /\ ui.peerEvent = "leave"
  /\ ~ui.presenceInfo.onlyYou
  /\ ui.presenceInfo.users = 2

\* C23: a presence, of the session or of another participant, whose
\* currentSlideId is the id of no slide of the local slide list is ignored:
\* no canvas and no text box is rendered for it, the participant is counted
\* on no thumbnail, and the render raises no error; so it is after the
\* slide a participant views has been deleted.
C23_UnknownSlideIgnored ==
  /\ ui.currentSlideId \notin LocalSlideIds =>
       ~canvasRendered(ui) /\ textBoxesRendered(ui) = {}
  /\ \A p \in Peers :
       (ui.others[p].online /\ ui.others[p].currentSlideId \notin LocalSlideIds) =>
         \A slideId \in visibleSlides(ui) : p \notin othersOnThisSlide(ui, slideId)
  /\ ~renderThrows(ui)

\* The slide the session views and the slide another participant views
\* have been deleted or have not arrived, while thumbnails are shown.
C23_Witness ==
  /\ ui.currentSlideId \notin LocalSlideIds \cup {NoSlide}
  /\ \E p \in Peers : /\ ui.others[p].online
                       /\ ui.others[p].currentSlideId \notin LocalSlideIds \cup {NoSlide}
  /\ visibleSlides(ui) # {}

\* C22: whenever the local slide count increases, from any previous count,
\* zero included, and the id of the last slide is the currentSlideId of
\* another participant while the session's currentSlideId differs from it,
\* the session's currentSlideId becomes the id of that slide.
C22_FollowsFromAnyCount ==
  [][(/\ Len(ui'.slides) > Len(ui.slides)
      /\ \E p \in Peers :
           /\ ui'.others[p].online
           /\ ui'.others[p].currentSlideId = ui'.slides[Len(ui'.slides)].id
      /\ ui.currentSlideId # ui'.slides[Len(ui'.slides)].id)
       => ui'.currentSlideId = ui'.slides[Len(ui'.slides)].id]_vars

\* C30: in shared mode, with the edit flag false or true, the slide on the
\* canvas is one of the allowed set, after any slide selections, remote
\* slide additions and auto-follow switches.
C30_CanvasShowsAllowedSlideOnly ==
  (isSharedMode(ui) /\ canvasRendered(ui)) =>
    ui.currentSlideId \in useShareMode(ui.link).allowedSlideIds.ids

\* C24: whenever an edit session on a text box ends (editingTextBoxId
\* changes from its id to null or to another id, by blur, canvas click,
\* slide selection or auto-follow), the text of the text box record is the
\* value its sequence has at that moment.
C24_SessionEndRefreshesText ==
  [][\A t \in RoomTextBoxIds :
       (ui.editingTextBoxId = t /\ ui'.editingTextBoxId # t) =>
         ui'.text[t] = ui.value[t]]_vars

\* C34: seeding from the stored text happens only on the initial load of a
\* text box: a text box that is mounted with characters in its sequence is
\* not seeded by a later step, so that after the user has deleted all of
\* its characters the stored text is not written back.
C34_SeedsOnInitialLoadOnly ==
  [][\A t \in textBoxesRendered(ui) :
       ui.value[t] # << >> => ~(t \in ui'.seeded /\ t \notin ui.seeded)]_vars

\* The session holds the slide and sees another participant on it.
ObservedWithAdder(u, slideId) ==
  /\ \E i \in 1..Len(u.slides) : u.slides[i].id = slideId
  /\ othersOnThisSlide(u, slideId) # {}

\* C36: when another participant has added a slide and moved to it, an
\* unrestricted session that is not on that slide views it once it has
\* observed both the slide list and the presence, in whichever order the
\* two arrive.
C36_FollowsInEitherOrder ==
  [][\A slideId \in RemoteSlideIds :
       ( /\ ~isSharedMode(ui)
         /\ ~ObservedWithAdder(ui, slideId)
         /\ ObservedWithAdder(ui', slideId) )
       => ui'.currentSlideId = slideId]_vars

\* C38: setValue on a text-box id changes only the sequence of that id.  A
\* step in which the user types into the text box being edited leaves the
\* sequences of all other ids (the map's keys are the text-box ids), the
\* slide list and the stored text of every text box, that of the edited
\* one included, as they were.
C38_SetValueWritesOneSequence ==
  [][\A t \in RoomTextBoxIds :
       ( /\ isEditing(ui, t)
         /\ isEditing(ui', t)
         /\ ui'.value[t] # ui.value[t] )
       => /\ \A t2 \in RoomTextBoxIds \ {t} : ui'.value[t2] = ui.value[t2]
          /\ DOMAIN ui'.value = DOMAIN ui.value
          /\ ui'.slides = ui.slides
          /\ ui'.text = ui.text]_vars

\* The user has typed "a" into a text box whose stored text is empty, and
\* is still editing it.
C38_Witness ==
  \E t \in textBoxesRendered(ui) :
    /\ isEditing(ui, t)
    /\ ui.value[t] = <<"a">>
    /\ ui.text[t] = << >>
    /\ [entry |-> "setValue", by |-> "event"] \in ui.invoked

(***************************************************************************)
(* Diff harness: every pair of strings up to MaxDiffLen is handed to the   *)
(* diff of setValue.                                                       *)
(***************************************************************************)
DiffInit ==
  /\ diffPrev \in StringsUpTo(MaxDiffLen)
  /\ diffNext \in StringsUpTo(MaxDiffLen)
  /\ diffOut = NoCall
  /\ TextInit
  /\ StoreIdle
  /\ UiIdle
  /\ ShareIdle
  /\ YjsIdle

\* setValue on a sequence whose string is diffPrev: the early return when
\* prev === next, the edit region otherwise.
DiffSetValue ==
  /\ diffOut = NoCall
  /\ diffOut' = IF diffPrev = diffNext THEN EarlyReturn
                ELSE editRegion(diffPrev, diffNext)
  /\ UNCHANGED <<diffPrev, diffNext, textVars, store, ui, share, yjs>>

\* The next call of the harness.
DiffReset ==
  /\ diffOut # NoCall
  /\ diffOut' = NoCall
  /\ diffPrev' \in StringsUpTo(MaxDiffLen)
  /\ diffNext' \in StringsUpTo(MaxDiffLen)
  /\ UNCHANGED <<textVars, store, ui, share, yjs>>

DiffNext == DiffSetValue \/ DiffReset

SpecDiff == DiffInit /\ [][DiffNext]_vars

DiffComputed == diffOut.kind = "edit"

\* C2: for P # N the edit region has a common prefix of length p, a common
\* suffix of length s, d = |P| - p - s, insert = N[p : |N| - s], and
\* deleting d characters at p then inserting the insert string at p
\* rebuilds N exactly.
C2_DiffReconstructs ==
  DiffComputed =>
    LET p == diffOut.prefixLen
        s == diffOut.suffixLen
    IN /\ diffPrev # diffNext
       /\ SubSeq(diffPrev, 1, p) = SubSeq(diffNext, 1, p)
       /\ SubSeq(diffPrev, Len(diffPrev) - s + 1, Len(diffPrev))
            = SubSeq(diffNext, Len(diffNext) - s + 1, Len(diffNext))
       /\ diffOut.deleteLen = Len(diffPrev) - p - s
       /\ diffOut.insertText = SubSeq(diffNext, p + 1, Len(diffNext) - s)
       /\ applyRegion(diffPrev, diffOut) = diffNext

\* A replacement in the middle of a string: both a delete and an insert
\* with a non-empty prefix and suffix around them.
C2_Witness ==
  /\ DiffComputed
  /\ diffOut.prefixLen > 0
  /\ diffOut.suffixLen > 0
  /\ diffOut.deleteLen > 0
  /\ Len(diffOut.insertText) > 0

\* C8: prefix and suffix never overlap, p + s <= min(|P|, |N|), so the
\* delete length and the insert length are non-negative.
C8_NoOverlap ==
  DiffComputed =>
    /\ diffOut.prefixLen + diffOut.suffixLen <= Min(Len(diffPrev), Len(diffNext))
    /\ diffOut.deleteLen >= 0
    /\ Len(diffNext) - diffOut.prefixLen - diffOut.suffixLen >= 0
    /\ Len(diffOut.insertText)
         = Len(diffNext) - diffOut.prefixLen - diffOut.suffixLen

\* A repeated character is removed: the unbounded suffix scan would run
\* into the prefix here ("aa" -> "a").
C8_Witness ==
  /\ DiffComputed
  /\ Len(diffPrev) = Len(diffNext) + 1
  /\ diffOut.prefixLen = Len(diffNext)
  /\ diffOut.prefixLen > 0
  /\ diffPrev[Len(diffPrev)] = diffNext[Len(diffNext)]

\* Deleting d characters of prev at pos and inserting one string there
\* gives next: the string inserted is then what next holds between the
\* kept prefix and the kept suffix.
TransformsBy(prev, next, pos, d) ==
  LET kept == Len(prev) - pos - d
  IN /\ pos + kept <= Len(next)
     /\ applyRegion(prev, [prefixLen |-> pos, deleteLen |-> d,
                           insertText |-> SubSeq(next, pos + 1, Len(next) - kept)])
          = next

\* The length of the longest common prefix and of the longest common
\* suffix of two strings.
CommonPrefix(a, b) ==
  Max({k \in 0..Min(Len(a), Len(b)) : SubSeq(a, 1, k) = SubSeq(b, 1, k)})

CommonSuffix(a, b) ==
  Max({k \in 0..Min(Len(a), Len(b)) :
         SubSeq(a, Len(a) - k + 1, Len(a)) = SubSeq(b, Len(b) - k + 1, Len(b))})

\* C28: the edit region of setValue is the minimal single contiguous
\* region: p is the length of the longest common prefix of P and N, s the
\* length of the longest common suffix of P[p:] and N[p:], and no delete
\* of fewer characters with one insert at one position turns P into N.
C28_MinimalRegion ==
  DiffComputed =>
    LET p == diffOut.prefixLen
        s == diffOut.suffixLen
    IN /\ p = CommonPrefix(diffPrev, diffNext)
       /\ s = CommonSuffix(SubSeq(diffPrev, p + 1, Len(diffPrev)),
                           SubSeq(diffNext, p + 1, Len(diffNext)))
       /\ TransformsBy(diffPrev, diffNext, p, diffOut.deleteLen)
       /\ \A pos \in 0..Len(diffPrev) : \A d \in 0..(Len(diffPrev) - pos) :
            TransformsBy(diffPrev, diffNext, pos, d) => d >= diffOut.deleteLen

\* A character is inserted between two others: nothing has to be deleted,
\* and only the suffix scan finds that out.
C28_Witness ==
  /\ DiffComputed
  /\ diffOut.prefixLen > 0
  /\ diffOut.suffixLen > 0
  /\ diffOut.deleteLen = 0
  /\ Len(diffOut.insertText) = 1

(***************************************************************************)
(* useShareMode under every link and every slide list.                     *)
(***************************************************************************)
ShareInit ==
  /\ \E link \in LinksUpTo(MaxParamLen) : share = ShareStart(link)
  /\ TextInit
  /\ DiffIdle
  /\ StoreIdle
  /\ UiIdle
  /\ YjsIdle

SpecShare == ShareInit /\ [][ShareNext]_vars

\* The application is started in production or, with the checks of
\* StrictMode, in development.
YjsInit ==
  /\ \E strictMode \in BOOLEAN : yjs = YjsStart(strictMode)
  /\ TextInit
  /\ DiffIdle
  /\ StoreIdle
  /\ UiIdle
  /\ ShareIdle

SpecYjs == YjsInit /\ [][YjsNext]_vars

\* C40: after any sequence of setup and cleanup of the effect of the
\* YjsProvider, the development-mode sequence setup, cleanup, setup
\* included, the document handed to the mounted components below it is
\* not destroyed and its provider has been connected.
C40_HandedDocIsLive ==
  yjs.phase = "mounted" =>
    /\ yjs.value # NoContext
    /\ ~yjs.contexts[yjs.value].destroyed
    /\ yjs.contexts[yjs.value].connected
    /\ \A c \in Children :
         yjs.children[c].mounted =>
           /\ yjs.children[c].doc # NoContext
           /\ ~yjs.contexts[yjs.children[c].doc].destroyed
           /\ yjs.contexts[yjs.children[c].doc].connected

\* The owner's session, opened with a link that carries no shared slides,
\* renders the ShareDialog with the slides of its deck.
DialogInit ==
  /\ \E link \in {l \in LinksUpTo(0) : ~useShareMode(l).isSharedMode},
        slides \in {l \in SlideListsOf(DialogSlideIds) : Len(l) > 0} :
       share = [ShareStart(link) EXCEPT
                  !.loaded = TRUE,
                  !.slides = slides,
                  !.dialog = ShareDialog(link, FALSE,
                                         [i \in 1..Len(slides) |-> slides[i].id],
                                         FALSE)]
  /\ TextInit
  /\ DiffIdle
  /\ StoreIdle
  /\ UiIdle
  /\ YjsIdle

SpecDialog == DialogInit /\ [][DialogNext]_vars

\* The ids the shared parameter lists: the numbers spelled by its maximal
\* runs of digits.
Listed(value) ==
  {idOf(SubSeq(value, i, j)) : <<i, j>> \in
     {r \in (1..Len(value)) \X (1..Len(value)) :
        /\ r[1] <= r[2]
        /\ \A k \in r[1]..r[2] : value[k] # Comma
        /\ r[1] = 1 \/ value[r[1] - 1] = Comma
        /\ r[2] = Len(value) \/ value[r[2] + 1] = Comma}}

\* C11: whenever the link carries the shared parameter, whatever its value
\* (the empty one included), the policy reports restricted mode, the
\* visible id set is exactly the set of ids listed in the parameter, and
\* readOnly is the negation of the edit flag.
C11_TokenRestricts ==
  (share.out.rendered /\ share.link.shared.present) =>
    /\ share.out.isSharedMode
    /\ ~share.out.allowedSlideIds.null
    /\ share.out.allowedSlideIds.ids = Listed(share.link.shared.value)
    /\ share.out.readOnly = ~(share.link.edit = "true")

\* C12: with no shared parameter the policy reports not restricted,
\* readOnly false and a null visible id set, and the visible slide list is
\* the full slide list.
C12_NoTokenFullAccess ==
  (share.out.rendered /\ ~share.link.shared.present) =>
    /\ ~share.out.isSharedMode
    /\ ~share.out.readOnly
    /\ share.out.allowedSlideIds.null
    /\ share.loaded => share.out.visibleSlides = share.slides

\* A session without the shared parameter but with edit=false has rendered
\* a list of three slides.
C12_Witness ==
  /\ share.out.rendered
  /\ ~share.link.shared.present
  /\ share.link.edit = "false"
  /\ share.loaded
  /\ Len(share.slides) = 3
  /\ share.out.visibleSlides = share.slides

\* C39: for every selection of slide ids that is not empty and every edit
\* flag, the link the share dialog makes, parsed by useShareMode, gives
\* exactly the selected ids as the allowed set and readOnly equal to the
\* negation of the edit flag; the link made of an empty selection carries
\* neither parameter.
C39_LinkRoundTrip ==
  share.dialog.mounted =>
    LET d == share.dialog
        mode == useShareMode(URLSearchParams(d.shareUrl))
    IN IF Len(d.selectedIds) > 0
       THEN /\ ~mode.allowedSlideIds.null
            /\ mode.allowedSlideIds.ids = {d.selectedIds[i] : i \in 1..Len(d.selectedIds)}
            /\ mode.readOnly = ~d.canEdit
       ELSE /\ ~d.shareUrl.shared.present
            /\ d.shareUrl.edit = Absent

\* The user has selected the slides 12 and 1, in this order, and allowed
\* editing, in a session whose own link carries an edit parameter.
C39_Witness ==
  /\ share.dialog.open
  /\ share.dialog.selectedIds = <<12, 1>>
  /\ share.dialog.canEdit
  /\ share.link.edit = "false"
  /\ share.dialog.shareUrl.shared.value = <<1, 2>> \o CommaEscape \o <<1>>

\* The place of the slide with this id in the list.
PlaceOf(slides, id) == CHOOSE i \in 1..Len(slides) : slides[i].id = id

\* C13: in restricted mode the visible list holds exactly the slides of the
\* full list whose ids are in the allowed set, each once and in the order
\* they have in the full list; a slide outside the set is not in it and an
\* allowed id that matches no slide adds nothing.
C13_VisibleIsFilteredSubsequence ==
  (share.out.rendered /\ share.out.isSharedMode /\ share.loaded) =>
    LET visible == share.out.visibleSlides
        allowed == share.out.allowedSlideIds.ids
    IN /\ \A i \in 1..Len(visible) :
            /\ visible[i].id \in allowed
            /\ \E j \in 1..Len(share.slides) : share.slides[j] = visible[i]
       /\ \A j \in 1..Len(share.slides) :
            share.slides[j].id \in allowed
              => Cardinality({i \in 1..Len(visible) : visible[i] = share.slides[j]}) = 1
       /\ \A i, k \in 1..Len(visible) :
            i < k => PlaceOf(share.slides, visible[i].id) < PlaceOf(share.slides, visible[k].id)
       /\ Len(visible) <= Cardinality(allowed)

\* A restricted session whose link lists a slide that does not exist shows
\* two of three slides, the later one of them first in the list.
C13_Witness ==
  /\ share.out.rendered
  /\ share.out.isSharedMode
  /\ share.loaded
  /\ Len(share.slides) = 3
  /\ Len(share.out.visibleSlides) = 2
  /\ share.out.visibleSlides[1].id > share.out.visibleSlides[2].id
  /\ \E id \in share.out.allowedSlideIds.ids :
       \A j \in 1..Len(share.slides) : share.slides[j].id # id

(***************************************************************************)
(* Every mutation of the slide list, from a list of the current or of the  *)
(* old format.                                                             *)
(***************************************************************************)
SlidesInit ==
  /\ \E slides \in StartLists : store = SlidesStart(slides)
  /\ TextInit
  /\ DiffIdle
  /\ UiIdle
  /\ ShareIdle
  /\ YjsIdle

SpecSlides == SlidesInit /\ [][SlidesNext]_vars

\* The last call was this mutation.
Did(op) == store.did.op = op

\* The slide list of the last call holds a slide with the id it was given,
\* and that slide a text box with the id it was given.
SlideMatched ==
  \E i \in 1..Len(store.did.before) : store.did.before[i].id = store.did.slideId

TextBoxMatched ==
  \E i \in 1..Len(store.did.before) :
    /\ store.did.before[i].id = store.did.slideId
    /\ \E j \in 1..Len(store.did.before[i].textBoxes) :
         store.did.before[i].textBoxes[j].id = store.did.textBoxId

\* What updateTextBox does to the text boxes: the given fields are set on
\* the text box with the id in the slide with the id, and nothing else of
\* any text box changes.
UpdateSetsGivenFields ==
  LET b == store.did.before
      a == store.did.after
  IN /\ Len(a) = Len(b)
     /\ \A i \in 1..Len(b) :
          IF b[i].id = store.did.slideId
          THEN /\ a[i].id = b[i].id
               /\ a[i].backgroundColor = b[i].backgroundColor
               /\ a[i].createdAt = b[i].createdAt
               /\ Len(a[i].textBoxes) = Len(b[i].textBoxes)
               /\ \A j \in 1..Len(b[i].textBoxes) :
                    IF b[i].textBoxes[j].id = store.did.textBoxId
                    THEN /\ DOMAIN a[i].textBoxes[j] = DOMAIN b[i].textBoxes[j]
                         /\ \A f \in DOMAIN b[i].textBoxes[j] :
                              a[i].textBoxes[j][f] =
                                IF f \in DOMAIN store.did.updates
                                THEN store.did.updates[f]
                                ELSE b[i].textBoxes[j][f]
                    ELSE a[i].textBoxes[j] = b[i].textBoxes[j]
          ELSE a[i] = b[i]

TextBoxIdsOf(slides) ==
  {slides[i].textBoxes[j].id :
     <<i, j>> \in {p \in (1..Len(slides)) \X (1..3) : p[2] <= Len(slides[p[1]].textBoxes)}}

\* C17: addTextBox on an existing slide appends exactly one record to the
\* end of the slide's text boxes, with a fresh id, empty text and the
\* default size, font size and colour; the text map then holds an empty
\* sequence under that id; the other slides and text boxes are unchanged.
C17_AddTextBoxAppendsOne ==
  (Did("addTextBox") /\ SlideMatched) =>
    LET b == store.did.before
        a == store.did.after
        id == store.did.textBoxId
    IN /\ Len(a) = Len(b)
       /\ id \notin TextBoxIdsOf(b)
       /\ store.did.textsBefore[id] = NoText
       /\ store.did.textsAfter[id] = ""
       /\ \A k \in TextKeys \ {id} : store.did.textsAfter[k] = store.did.textsBefore[k]
       /\ \A i \in 1..Len(b) :
            IF b[i].id = store.did.slideId
            THEN /\ Len(a[i].textBoxes) = Len(b[i].textBoxes) + 1
                 /\ \A j \in 1..Len(b[i].textBoxes) : a[i].textBoxes[j] = b[i].textBoxes[j]
                 /\ LET new == a[i].textBoxes[Len(a[i].textBoxes)]
                    IN /\ new.id = id
                       /\ new.text = ""
                       /\ new.width = 200 /\ new.height = 100
                       /\ new.fontSize = 16
                       /\ new.color = "gray.900"
            ELSE a[i] = b[i]

\* A text box is added to a slide that holds two.
C17_Witness ==
  /\ Did("addTextBox")
  /\ \E i \in 1..Len(store.did.before) :
       /\ store.did.before[i].id = store.did.slideId
       /\ Len(store.did.before[i].textBoxes) = 2
       /\ Len(store.did.after[i].textBoxes) = 3

\* C18: addSlide returns the id of a new slide that is the last of the
\* list, has no text box and the default background, and the slides that
\* were there are unchanged and in their order.
C18_AddSlideAppends ==
  Did("addSlide") =>
    LET b == store.did.before
        a == store.did.after
    IN /\ Len(a) = Len(b) + 1
       /\ \A i \in 1..Len(b) : a[i] = b[i] /\ b[i].id # store.did.result
       /\ a[Len(a)].id = store.did.result
       /\ a[Len(a)].isArray
       /\ a[Len(a)].textBoxes = << >>
       /\ a[Len(a)].backgroundColor = "white"

\* A slide is added to a list of two or more.
C18_Witness ==
  /\ Did("addSlide")
  /\ Len(store.did.before) >= 2
  /\ store.did.after[Len(store.did.after)].id = store.did.result

\* C19: deleteSlide(id) removes every slide with the id and keeps the
\* others unchanged in their order; when no slide has the id the list is
\* unchanged; no error is raised.
C19_DeleteSlideFilters ==
  Did("deleteSlide") =>
    LET b == store.did.before
        a == store.did.after
        kept == {i \in 1..Len(b) : b[i].id # store.did.slideId}
    IN /\ Len(a) = Cardinality(kept)
       /\ \A i \in kept : a[Cardinality({k \in kept : k <= i})] = b[i]
       /\ ~SlideMatched => a = b
       /\ ~store.did.threw

\* The first slide of a list is deleted and the ones after it stay.
C19_Witness ==
  /\ Did("deleteSlide")
  /\ Len(store.did.before) >= 2
  /\ store.did.before[1].id = store.did.slideId
  /\ Len(store.did.after) = Len(store.did.before) - 1

\* C35: once deleteSlide(id) has been issued by one client and all clients
\* have synchronized, the slide is in no client's slide list nor in the
\* server's, also when the other client issued updateTextBox or addTextBox
\* on that slide concurrently; no call raised an error.
C35_DeletedSlideStaysDeleted ==
  (Did("deleteSlide") /\ StoreQuiescent) =>
    /\ \A i \in 1..Len(store.server) : store.server[i].id # store.did.slideId
    /\ \A c \in Clients :
         \A i \in 1..Len(store.local[c]) : store.local[c][i].id # store.did.slideId
    /\ ~store.did.threw

\* Every slide of the list has a proper sequence of text boxes.
WellFormed(slides) == \A i \in 1..Len(slides) : slides[i].isArray

\* The slide list after migrateSlides is called on slides at the time now.
Migrated(slides, now) ==
  IF migrateSlidesMutation(slides, now).needsMigration
  THEN migrateSlidesMutation(slides, now).migratedSlides
  ELSE slides

\* C20: migrateSlides applied twice gives the list it gives applied once,
\* it never modifies a slide whose text boxes are a proper sequence, and
\* on a list of such slides only it writes nothing.
C20_MigrateIdempotent ==
  Did("migrateSlides") =>
    /\ \A now \in Times : Migrated(store.did.after, now) = store.did.after
    /\ Len(store.did.after) = Len(store.did.before)
    /\ \A i \in 1..Len(store.did.before) :
         store.did.before[i].isArray => store.did.after[i] = store.did.before[i]
    /\ WellFormed(store.did.before) =>
         (~store.did.wrote /\ store.did.after = store.did.before)

\* migrateSlides has rewritten a list that holds a slide of the old format
\* next to a slide with text boxes.
C20_Witness ==
  /\ Did("migrateSlides")
  /\ store.did.wrote
  /\ ~WellFormed(store.did.before)
  /\ \E i \in 1..Len(store.did.before) :
       store.did.before[i].isArray /\ store.did.before[i].textBoxes # << >>
  /\ WellFormed(store.did.after)

\* What migrateSlides makes of every slide: the slides keep their number,
\* order and ids, and a slide of the old format gets an empty sequence of
\* text boxes; keepsColor and keepsTime say which values of the two fields
\* migrateSlides has to keep.
MigrateReplaces(keepsColor(_), keepsTime(_)) ==
  LET b == store.did.before
      a == store.did.after
  IN /\ Len(a) = Len(b)
     /\ \A i \in 1..Len(b) :
          /\ a[i].id = b[i].id
          /\ ~b[i].isArray =>
               /\ a[i].isArray
               /\ a[i].textBoxes = << >>
               /\ a[i].backgroundColor =
                    IF keepsColor(b[i].backgroundColor)
                    THEN b[i].backgroundColor ELSE "white"
               /\ IF keepsTime(b[i].createdAt)
                  THEN a[i].createdAt = b[i].createdAt
                  ELSE a[i].createdAt \in Times

\* C21 as stated: migrateSlides replaces every slide of the old format by a
\* slide with the same id, no text box, and the background colour and the
\* creation time it had whenever it had them (the defaults only when it
\* had none); the number and the order of the slides are unchanged.
C21_MigrateKeepsPresentFields ==
  Did("migrateSlides") =>
    MigrateReplaces(LAMBDA color : color # NoColor, LAMBDA time : time # NoTime)

\* C21 as amended: the same, with the background colour and the creation
\* time kept whenever they are present and neither the empty string nor 0
\* (the defaults when they are absent, empty or 0).
C21_MigrateKeepsTruthyFields ==
  Did("migrateSlides") =>
    MigrateReplaces(LAMBDA color : color \notin {NoColor, ""},
                    LAMBDA time : time \notin {NoTime, 0})

\* migrateSlides has rewritten a slide of the old format that had a
\* background colour other than the default and a creation time, and both
\* are kept.
C21_Witness ==
  /\ Did("migrateSlides")
  /\ store.did.wrote
  /\ \E i \in 1..Len(store.did.before) :
       /\ ~store.did.before[i].isArray
       /\ store.did.before[i].backgroundColor = "blue"
       /\ store.did.after[i].backgroundColor = "blue"
       /\ store.did.after[i].createdAt = store.did.before[i].createdAt
       /\ store.did.after[i].createdAt \notin Times

====
